---- MODULE Spec2Model ----
(***************************************************************************)
(* A model of cdb64: the builder (CdbWriter), the reader (Cdb) and the     *)
(* sequential iterator (CdbIterator), at the level of the bytes of the     *)
(* sink.                                                                   *)
(*                                                                         *)
(* Representation.                                                         *)
(*  - A byte is a number in 0..255, a byte string a sequence of bytes.     *)
(*  - The sink (Cursor<Vec<u8>> or File) is [len, nz]: its length and the  *)
(*    map from the offsets of its non-zero bytes to those bytes; every     *)
(*    other offset below len holds 0.  Two sinks hold the same bytes iff   *)
(*    they are equal.                                                      *)
(*  - A u64 that is a hash is four little-endian 16-bit limbs, so that     *)
(*    wrapping arithmetic mod 2^64 is exact; a u64 that is an offset or a  *)
(*    count, and a u32 length, is a natural number (they stay far below    *)
(*    2^31 here) and is converted to and from its bytes where the code     *)
(*    does.                                                                *)
(***************************************************************************)
EXTENDS Integers, Sequences, FiniteSets, TLC

\* ------------------------------------------------------------------ bounds
\* The number of successful puts of one build.
MaxPuts == 3

\* The number of bytes written to one hasher.
MaxKeyLen == 13
\* The number of get calls in flight on one reader.
MaxGets == 2
\* The length of the buffer handed to read_exact_at on its own, and the number
\* of Interrupted errors during one call.
MaxBuf == 4
MaxInterrupts == 2
\* The highest offset handed to read_exact_at on its own.
MaxOffset == 5
\* The calls on one builder that meet an I/O error.
MaxFailures == 1

\* ------------------------------------------------------- program constants
HEADER_SIZE == 256 * 8 * 2
NUM_TABLES == 256
CDB_HASH_START_VALUE == 5381

\* ------------------------------------------------------------------ inputs
\* Keys handed to put.  With CdbHash, <<>> and <<160>> fall in subtable 5,
\* with the same start slot for 2, 4 and 6 slots; <<1, 96>> falls in
\* subtable 68.
PutKeys == { <<>>, <<160>>, <<1, 96>> }
\* Keys handed to get: the above, <<2, 195>> (same 64-bit hash and length as
\* <<1, 96>>) and <<5>> (subtable 160).
GetKeys == PutKeys \cup { <<2, 195>>, <<5>> }
Vals == { <<>>, <<7>> }
\* Bytes written to a hasher on its own, the slices written in one call of
\* write, and the numbers written with write_u64 (0x123456789abcdef0 and 1, as
\* four 16-bit limbs, least significant first).
HashBytes == { 97, 255 }
HashChunks == { <<>>, << 97, 255 >>, << 255, 255, 97 >> }
HashU64s == { << 57072, 39612, 22136, 4660 >>, << 1, 0, 0, 0 >> }

\* ------------------------------------------------------------- byte strings
RECURSIVE Xor(_, _)
Xor(a, b) ==
    IF a = 0 THEN b
    ELSE IF b = 0 THEN a
    ELSE (((a % 2) + (b % 2)) % 2) + 2 * Xor(a \div 2, b \div 2)

\* u32::to_le_bytes
ToLeBytes32(n) ==
    << n % 256, (n \div 256) % 256, (n \div 65536) % 256, (n \div 16777216) % 256 >>

\* u32::from_le_bytes
FromLeBytes32(b) == b[1] + 256 * b[2] + 65536 * b[3] + 16777216 * b[4]

\* A u64 as four 16-bit limbs, least significant first.
U64FromNat(n) == << n % 65536, (n \div 65536) % 65536, 0, 0 >>
U64ToNat(h) == h[1] + 65536 * h[2]
Zero64 == << 0, 0, 0, 0 >>

\* u64::to_le_bytes
ToLeBytes64(h) ==
    << h[1] % 256, h[1] \div 256, h[2] % 256, h[2] \div 256,
       h[3] % 256, h[3] \div 256, h[4] % 256, h[4] \div 256 >>

\* u64::from_le_bytes
FromLeBytes64(b) ==
    << b[1] + 256 * b[2], b[3] + 256 * b[4], b[5] + 256 * b[6], b[7] + 256 * b[8] >>

\* val << 5 on a u64: the bits shifted out of the top limb are lost.
Shl5(h) ==
    LET t1 == h[1] * 32
        t2 == (h[2] * 32) + (t1 \div 65536)
        t3 == (h[3] * 32) + (t2 \div 65536)
        t4 == (h[4] * 32) + (t3 \div 65536)
    IN  << t1 % 65536, t2 % 65536, t3 % 65536, t4 % 65536 >>

\* u64::wrapping_add
WrappingAdd(a, b) ==
    LET t1 == a[1] + b[1]
        t2 == a[2] + b[2] + (t1 \div 65536)
        t3 == a[3] + b[3] + (t2 \div 65536)
        t4 == a[4] + b[4] + (t3 \div 65536)
    IN  << t1 % 65536, t2 % 65536, t3 % 65536, t4 % 65536 >>

\* u64::overflowing_add: the wrapped sum, and whether it left the range.
OverflowingAdd(a, b) ==
    LET t1 == a[1] + b[1]
        t2 == a[2] + b[2] + (t1 \div 65536)
        t3 == a[3] + b[3] + (t2 \div 65536)
        t4 == a[4] + b[4] + (t3 \div 65536)
    IN  [sum |-> << t1 % 65536, t2 % 65536, t3 % 65536, t4 % 65536 >>,
         overflow |-> t4 >= 65536]

\* hash_val & 0xff
LowByte(h) == h[1] % 256

\* (hash_val >> 8) % n
ShrMod(h, n) ==
    LET r4 == h[4] % n
        r3 == ((r4 * 65536) + h[3]) % n
        r2 == ((r3 * 65536) + h[2]) % n
    IN  ((r2 * 256) + (h[1] \div 256)) % n

\* ----------------------------------------------------------------- CdbHash
\* One byte of Hasher::write: val = ((val << 5).wrapping_add(val)) ^ byte.
HashByte(val, byte) ==
    LET s == WrappingAdd(Shl5(val), val)
    IN  [s EXCEPT ![1] = Xor(s[1], byte)]

\* Faulty write: of the slice only the first byte is taken.
HashWriteFirstOnly(state, bytes) ==
    IF bytes = <<>> THEN state ELSE HashByte(state, Head(bytes))

\* Hasher::write: the bytes of the slice in their order, from the state the
\* hasher is in.
RECURSIVE HashWrite(_, _)
HashWrite(state, bytes) ==
    IF bytes = <<>> THEN state
    ELSE HashWrite(HashByte(state, Head(bytes)), Tail(bytes))

\* H::default(); hasher.write(key); hasher.finish()
Hash(key) == HashWrite(U64FromNat(CDB_HASH_START_VALUE), key)

\* One byte of CDBHash::write (src/hash.rs): v = ((v << 5) + v) ^ byte, the
\* addition with the + operator.  It panics on overflow in a build with
\* overflow checks and wraps in a build without.
CDBHashByte(h, byte, overflow_checks) ==
    LET s == OverflowingAdd(Shl5(h.v), h.v)
    IN  IF h.panicked THEN h
        ELSE IF s.overflow /\ overflow_checks THEN [h EXCEPT !.panicked = TRUE]
        ELSE [h EXCEPT !.v = [s.sum EXCEPT ![1] = Xor(s.sum[1], byte)]]

\* CDBHash::write (src/hash.rs): the bytes of the slice in their order.
RECURSIVE CDBHashWrite(_, _, _)
CDBHashWrite(h, bytes, overflow_checks) ==
    IF bytes = <<>> THEN h
    ELSE CDBHashWrite(CDBHashByte(h, Head(bytes), overflow_checks), Tail(bytes),
                      overflow_checks)

\* -------------------------------------------------------------------- sink
\* A function on 1..n as the sequence of its values (each computed once).
AsSeq(f) == f \o <<>>

EmptySink == [len |-> 0, nz |-> [o \in {} |-> 0]]

Max(a, b) == IF a >= b THEN a ELSE b

\* seek(SeekFrom::Start(pos)) followed by write_all(bytes): the bytes land at
\* pos..pos+Len(bytes)-1; a gap between the old end and pos reads as zeros.
WriteAt(f, pos, bytes) ==
    IF bytes = <<>> THEN f
    ELSE
      LET n == Len(bytes)
          keep == { o \in DOMAIN f.nz : o < pos \/ o >= pos + n }
          set == { pos + i - 1 : i \in { j \in 1..n : bytes[j] # 0 } }
      IN  [len |-> Max(f.len, pos + n),
           nz |-> [o \in keep \cup set |->
                     IF o \in set THEN bytes[o - pos + 1] ELSE f.nz[o]]]

ReadByte(f, o) == IF o \in DOMAIN f.nz THEN f.nz[o] ELSE 0

\* ReaderAt::read_exact_at: exactly n bytes at offset, or UnexpectedEof.
read_exact_at(f, n, offset) ==
    IF n = 0 THEN [ok |-> TRUE, bytes |-> <<>>]
    ELSE IF offset + n > f.len THEN [ok |-> FALSE, bytes |-> <<>>]
    ELSE [ok |-> TRUE,
          bytes |-> AsSeq([i \in 1..n |-> ReadByte(f, offset + i - 1)])]

\* util::read_tuple: two little-endian u32 from the 8 bytes at offset.
read_tuple(f, offset) ==
    LET r == read_exact_at(f, 8, offset)
    IN  IF ~r.ok THEN [ok |-> FALSE, first |-> 0, second |-> 0]
        ELSE [ok |-> TRUE,
              first |-> FromLeBytes32(SubSeq(r.bytes, 1, 4)),
              second |-> FromLeBytes32(SubSeq(r.bytes, 5, 8))]

\* util::write_tuple: the bytes it writes, two little-endian u32.
write_tuple(first, second) == ToLeBytes32(first) \o ToLeBytes32(second)

\* ------------------------------------------------------------------ writer
VARIABLES
    writer,               \* CdbWriter.writer: the bytes of the sink
    entries_by_table,     \* CdbWriter.entries_by_table: the non-empty vectors
    is_finalized,         \* CdbWriter.is_finalized
    current_data_offset,  \* CdbWriter.current_data_offset
    alive,                \* FALSE once into_inner has consumed the builder
    inner,                \* what into_inner returned: the sink, or nothing
    frozen,               \* what freeze returned: the reader, or nothing
    ret,                  \* the last call on the builder and its result
    puts,                 \* history: the (key, value) of every successful put
    finalize_calls,       \* history: how many calls of finalize returned (2: two or more)
    pc,                   \* where a finalize in progress stands (SpecSteps)
    fin,                  \* the locals of a finalize in progress (SpecSteps)
    hasher,               \* a CdbHash and a CDBHash at work on the same bytes
    source,               \* the bytes of the file a reader is opened on
    opened,               \* what Cdb::new returned on source: the reader, or nothing
    gets,                 \* the locals of each get call on the reader
    iter,                 \* the CdbIterator on the reader, and what it has yielded
    rx,                   \* a call of read_exact_at, one read_at at a time
    failures,             \* history: how many calls on the builder have met an I/O error
    hx                    \* the hasher types of a builder and of a reader, and a get of that reader

\* The variables of the builder, and those of the other parts.  The calls on the
\* builder that meet no I/O error leave failures as it is, like the other parts.
builderVars == << writer, entries_by_table, is_finalized, current_data_offset,
                  alive, inner, frozen, ret, puts, finalize_calls, pc, fin >>
readerVars == << source, opened, gets, iter >>
notBuilder == << hasher, readerVars, rx, failures, hx >>
notHasher == << builderVars, readerVars, rx, failures, hx >>
notReader == << builderVars, hasher, rx, failures, hx >>
notExact == << builderVars, hasher, readerVars, failures, hx >>
notSink == << hasher, readerVars, rx, hx >>
notTyped == << hasher, readerVars, rx, failures >>

vars == << builderVars, notBuilder >>

Tables == 0 .. (NUM_TABLES - 1)

\* TableEntry::default()
DefaultTableEntry == [offset |-> 0, length |-> 0]

\* An array over the 256 subtables is kept in the state without its default
\* elements: Dense gives the array, Sparse what is kept of it.
Dense(s, default) == [i \in Tables |-> IF i \in DOMAIN s THEN s[i] ELSE default]
Sparse(f, default) == [i \in { j \in Tables : f[j] # default } |-> f[i]]

NoFin == [pos |-> 0, next |-> 0,
          final_header_entries |->
              Sparse([i \in Tables |-> DefaultTableEntry], DefaultTableEntry)]

NoSink == [some |-> FALSE, sink |-> EmptySink]

NoReader == [some |-> FALSE, ok |-> FALSE, reader |-> EmptySink,
             header |-> Sparse([i \in Tables |-> DefaultTableEntry],
                               DefaultTableEntry)]

\* The get calls on one reader.
Gets == 1 .. MaxGets

\* No get call: nothing of Cdb::get is live.  Of a get call, slots is the
\* history of the slots it has read, in the order of the reads, and passed the
\* number of slots of its hash whose record was of another key.
GetIdle == [phase |-> "idle", key |-> <<>>, i |-> 0, data_offset |-> 0,
            key_len |-> 0, val_len |-> 0, result |-> [kind |-> "-", value |-> <<>>],
            slots |-> <<>>, passed |-> 0]

\* No iterator.  Of an iterator, items is the pairs next() has returned, last
\* the kind of its last result, errs how many of its calls have returned an
\* error (2: two or more).
NoIter == [on |-> FALSE, current_pos |-> 0, end_pos |-> 0, phase |-> "tuple",
           key_len |-> 0, val_len |-> 0, key_buf |-> <<>>,
           items |-> <<>>, last |-> "-", errs |-> 0]

\* No reader at work.
ReaderParked ==
    /\ source = EmptySink
    /\ opened = NoReader
    /\ gets = [g \in Gets |-> GetIdle]
    /\ iter = NoIter

\* What read_at returned last: nothing yet.
NoReturn == [kind |-> "-", n |-> 0]

\* No call of read_exact_at on its own.
NoExact == [on |-> FALSE, data |-> <<>>, want |-> 0, offset |-> 0, buf |-> <<>>,
            cur |-> 0, reads |-> 0, interrupts |-> 0, returned |-> NoReturn,
            result |-> "-"]

\* The builder and the reader have the default hasher type, CdbHash, and no
\* get under a hasher type of its own was called.
NoHx == [H |-> "CdbHash", on |-> FALSE, H2 |-> "CdbHash", key |-> <<>>,
         result |-> [kind |-> "-", value |-> <<>>]]

\* No hasher at work.
NoHasher == [on |-> FALSE, key |-> <<>>, state |-> Zero64,
             cdbhash |-> [v |-> Zero64, panicked |-> FALSE],
             overflow_checks |-> FALSE, last |-> [op |-> "-", i |-> Zero64]]

\* CdbWriter::new on an empty sink: seek to 0, write the placeholder header.
WriterNew(f) == WriteAt(f, 0, AsSeq([i \in 1..HEADER_SIZE |-> 0]))

\* The bytes put writes at current_data_offset: the tuple of lengths, the key,
\* the value.
PutBytes(key, value) == write_tuple(Len(key), Len(value)) \o key \o value

\* The amount put adds to current_data_offset.
PutAdvance(key, value) == 16 + Len(key) + Len(value)

\* vec![x; n]
RECURSIVE Repeat(_, _)
Repeat(x, n) == IF n = 0 THEN <<>> ELSE Append(Repeat(x, n - 1), x)

\* Faulty probe: the loop steps to the slot before, wrapping, not the slot
\* after.
RECURSIVE ProbeEmptyBackward(_, _)
ProbeEmptyBackward(slots_data, slot_idx) ==
    IF slots_data[slot_idx + 1][2] = 0 THEN slot_idx
    ELSE ProbeEmptyBackward(slots_data,
                            (slot_idx + Len(slots_data) - 1) % Len(slots_data))

\* The probe of the slot-placement loop: the first slot, from slot_idx on and
\* wrapping, whose offset field is 0.
RECURSIVE ProbeEmpty(_, _)
ProbeEmpty(slots_data, slot_idx) ==
    IF slots_data[slot_idx + 1][2] = 0 THEN slot_idx
    ELSE ProbeEmpty(slots_data, (slot_idx + 1) % Len(slots_data))

\* Faulty placement: the entry goes to its starting slot, taken or not.
PlaceEntryNoProbe(slots_data, entry) ==
    LET slot_idx == ShrMod(entry.hash_val, Len(slots_data))
    IN  [slots_data EXCEPT ![slot_idx + 1] = << entry.hash_val, entry.offset >>]

PlaceEntry(slots_data, entry) ==
    LET slot_idx == ProbeEmpty(slots_data, ShrMod(entry.hash_val, Len(slots_data)))
    IN  [slots_data EXCEPT ![slot_idx + 1] = << entry.hash_val, entry.offset >>]

\* Faulty placement: the entries of a subtable are placed last put first.
RECURSIVE PlaceAllLastFirst(_, _)
PlaceAllLastFirst(slots_data, entries) ==
    IF entries = <<>> THEN slots_data
    ELSE PlaceAllLastFirst(PlaceEntry(slots_data, entries[Len(entries)]),
                           SubSeq(entries, 1, Len(entries) - 1))

RECURSIVE PlaceAll(_, _)
PlaceAll(slots_data, entries) ==
    IF entries = <<>> THEN slots_data
    ELSE PlaceAll(PlaceEntry(slots_data, Head(entries)), Tail(entries))

\* The slot array of one subtable: 2n slots, the entries placed in insertion
\* order.
SlotsData(entries) ==
    PlaceAll(Repeat(<< Zero64, 0 >>, 2 * Len(entries)), entries)

\* The bytes of a slot array: per slot the hash, then the offset, as u64.
RECURSIVE SlotBytes(_)
SlotBytes(slots_data) ==
    IF slots_data = <<>> THEN <<>>
    ELSE ToLeBytes64(Head(slots_data)[1])
         \o ToLeBytes64(U64FromNat(Head(slots_data)[2]))
         \o SlotBytes(Tail(slots_data))

\* Faulty turn of the loop: the header entry of a non-empty subtable is written
\* to the sink in the same turn as its slot array.
FooterStepHeaderEarly(st, entries, i) ==
    IF entries[i] = <<>>
    THEN [st EXCEPT !.hdr[i] = [offset |-> 0, length |-> 0]]
    ELSE LET num_slots == Len(entries[i]) * 2
             slots == WriteAt(st.sink, st.pos, SlotBytes(SlotsData(entries[i])))
         IN  [sink |-> WriteAt(slots, 16 * i,
                               ToLeBytes64(U64FromNat(st.pos))
                                   \o ToLeBytes64(U64FromNat(num_slots))),
              pos |-> st.pos + (num_slots * 16),
              hdr |-> [st.hdr EXCEPT ![i] = [offset |-> st.pos, length |-> num_slots]]]

\* Faulty turn of the loop: an empty subtable gets the current position as its
\* offset (as in the classic cdb layout) instead of 0.
FooterStepEmptyAtPos(st, entries, i) ==
    IF entries[i] = <<>>
    THEN [st EXCEPT !.hdr[i] = [offset |-> st.pos, length |-> 0]]
    ELSE LET num_slots == Len(entries[i]) * 2
         IN  [sink |-> WriteAt(st.sink, st.pos, SlotBytes(SlotsData(entries[i]))),
              pos |-> st.pos + (num_slots * 16),
              hdr |-> [st.hdr EXCEPT ![i] = [offset |-> st.pos, length |-> num_slots]]]

\* Faulty turn of the loop: a subtable gets one slot per entry, not two.
FooterStepOneSlotPerEntry(st, entries, i) ==
    IF entries[i] = <<>>
    THEN [st EXCEPT !.hdr[i] = [offset |-> 0, length |-> 0]]
    ELSE LET num_slots == Len(entries[i])
             slots_data == PlaceAll(Repeat(<< Zero64, 0 >>, num_slots), entries[i])
         IN  [sink |-> WriteAt(st.sink, st.pos, SlotBytes(slots_data)),
              pos |-> st.pos + (num_slots * 16),
              hdr |-> [st.hdr EXCEPT ![i] = [offset |-> st.pos, length |-> num_slots]]]

\* Faulty turn of the loop: the position moves on by 8 bytes per slot, not 16.
FooterStepHalfAdvance(st, entries, i) ==
    IF entries[i] = <<>>
    THEN [st EXCEPT !.hdr[i] = [offset |-> 0, length |-> 0]]
    ELSE LET num_slots == Len(entries[i]) * 2
         IN  [sink |-> WriteAt(st.sink, st.pos, SlotBytes(SlotsData(entries[i]))),
              pos |-> st.pos + (num_slots * 8),
              hdr |-> [st.hdr EXCEPT ![i] = [offset |-> st.pos, length |-> num_slots]]]

\* One turn of the loop over the subtables (writer.rs, for (i, entries)):
\* st = [sink, pos, hdr] before subtable i, the result after it.
FooterStep(st, entries, i) ==
    IF entries[i] = <<>>
    THEN [st EXCEPT !.hdr[i] = [offset |-> 0, length |-> 0]]
    ELSE LET num_slots == Len(entries[i]) * 2
         IN  [sink |-> WriteAt(st.sink, st.pos, SlotBytes(SlotsData(entries[i]))),
              pos |-> st.pos + (num_slots * 16),
              hdr |-> [st.hdr EXCEPT ![i] = [offset |-> st.pos, length |-> num_slots]]]

\* The turns i, i+1, ..., stop-1 of that loop, in this order (the range is
\* halved rather than peeled so that the evaluation stays shallow).
RECURSIVE FooterLoop(_, _, _, _)
FooterLoop(st, entries, i, stop) ==
    IF i >= stop THEN st
    ELSE IF stop = i + 1 THEN FooterStep(st, entries, i)
    ELSE LET mid == (i + stop) \div 2
             half == FooterLoop(st, entries, i, mid)
         IN  IF half.pos >= st.pos THEN FooterLoop(half, entries, mid, stop)
             ELSE half

\* The bytes of the header entries i, i+1, ..., stop-1 in this order: per
\* subtable the offset, then the length, as u64 (the range is halved rather
\* than peeled so that the evaluation stays shallow).
RECURSIVE HeaderRange(_, _, _)
HeaderRange(entries, i, stop) ==
    IF i >= stop THEN <<>>
    ELSE IF stop = i + 1
    THEN ToLeBytes64(U64FromNat(entries[i].offset))
             \o ToLeBytes64(U64FromNat(entries[i].length))
    ELSE LET mid == (i + stop) \div 2
         IN  HeaderRange(entries, i, mid) \o HeaderRange(entries, mid, stop)

HeaderBytes(entries) == HeaderRange(entries, 0, NUM_TABLES)

\* seek to 0 and write the 256 header entries.
WriteHeader(f, entries) == WriteAt(f, 0, HeaderBytes(entries))

\* write_footer_and_header on an unfinalized builder: the sink it leaves.
FooterAndHeader(f, entries, data_offset) ==
    LET st == FooterLoop([sink |-> f, pos |-> data_offset,
                          hdr |-> [i \in Tables |-> DefaultTableEntry]],
                         entries, 0, NUM_TABLES)
    IN  WriteHeader(st.sink, st.hdr)

\* ---------------------------------------------------------------------------
\* The reader (cdb.rs) and the iterator (iterator.rs), as operators on a sink.

\* Faulty read_header: of the 16 bytes of an entry the first 8 are taken as
\* the length and the last 8 as the offset.
read_header_LengthFirst(reader) ==
    LET header_buf == read_exact_at(reader, HEADER_SIZE, 0)
    IN  IF ~header_buf.ok THEN [ok |-> FALSE, header |-> [i \in Tables |-> DefaultTableEntry]]
        ELSE [ok |-> TRUE,
              header |-> [i \in Tables |->
                  [offset |-> U64ToNat(FromLeBytes64(
                                 [b \in 1..8 |-> header_buf.bytes[(i * 16) + 8 + b]])),
                   length |-> U64ToNat(FromLeBytes64(
                                 [b \in 1..8 |-> header_buf.bytes[(i * 16) + b]]))]]]

\* Cdb::read_header: the 256 (offset, length) pairs of the first HEADER_SIZE
\* bytes; an error when the sink is shorter than that.
read_header(reader) ==
    LET header_buf == read_exact_at(reader, HEADER_SIZE, 0)
    IN  IF ~header_buf.ok THEN [ok |-> FALSE, header |-> [i \in Tables |-> DefaultTableEntry]]
        ELSE [ok |-> TRUE,
              header |-> [i \in Tables |->
                  [offset |-> U64ToNat(FromLeBytes64(
                                 [b \in 1..8 |-> header_buf.bytes[(i * 16) + b]])),
                   length |-> U64ToNat(FromLeBytes64(
                                 [b \in 1..8 |-> header_buf.bytes[(i * 16) + 8 + b]]))]]]

\* Cdb::new
CdbNew(reader) ==
    LET h == read_header(reader)
    IN  [ok |-> h.ok, reader |-> reader, header |-> h.header]

\* The three results of a lookup, io::Result<Option<Vec<u8>>>.
GetSome(value) == [kind |-> "Some", value |-> value]
GetNone == [kind |-> "None", value |-> <<>>]
GetErr == [kind |-> "Err", value |-> <<>>]

\* Faulty get_value_at: the stored key is not compared with the key looked up,
\* matching lengths are enough.
get_value_at_NoKeyCompare(reader, data_offset, expected_key) ==
    LET t == read_tuple(reader, data_offset)
        value_buf == read_exact_at(reader, t.second, data_offset + 8 + t.first)
    IN  IF ~t.ok THEN GetErr
        ELSE IF t.first # Len(expected_key) THEN GetNone
        ELSE IF value_buf.ok THEN GetSome(value_buf.bytes) ELSE GetErr

\* Faulty get_value_at: a record is never found under the empty key.
get_value_at_EmptyKeyNotFound(reader, data_offset, expected_key) ==
    LET t == read_tuple(reader, data_offset)
        key_buf == read_exact_at(reader, t.first, data_offset + 8)
        value_buf == read_exact_at(reader, t.second, data_offset + 8 + t.first)
    IN  IF ~t.ok THEN GetErr
        ELSE IF expected_key = <<>> \/ t.first # Len(expected_key) THEN GetNone
        ELSE IF ~key_buf.ok THEN GetErr
        ELSE IF key_buf.bytes # expected_key THEN GetNone
        ELSE IF value_buf.ok THEN GetSome(value_buf.bytes) ELSE GetErr

\* Cdb::get_value_at: the lengths at data_offset, the key 8 bytes further, the
\* value right after the key.
get_value_at(reader, data_offset, expected_key) ==
    LET t == read_tuple(reader, data_offset)
        key_len == t.first
        val_len == t.second
        NoBytes == [ok |-> TRUE, bytes |-> <<>>]
    IN  IF ~t.ok THEN GetErr
        ELSE IF key_len # Len(expected_key) THEN GetNone
        ELSE IF expected_key = <<>>
        THEN LET value_buf == IF val_len > 0
                              THEN read_exact_at(reader, val_len, data_offset + 8)
                              ELSE NoBytes
             IN  IF value_buf.ok THEN GetSome(value_buf.bytes) ELSE GetErr
        ELSE LET key_buf == read_exact_at(reader, key_len, data_offset + 8)
             IN  IF ~key_buf.ok THEN GetErr
                 ELSE IF key_buf.bytes # expected_key THEN GetNone
                 ELSE LET value_buf ==
                            IF val_len > 0
                            THEN read_exact_at(reader, val_len, data_offset + 8 + key_len)
                            ELSE NoBytes
                      IN  IF value_buf.ok THEN GetSome(value_buf.bytes) ELSE GetErr

\* The probe loop of Cdb::get, from turn i on.
RECURSIVE GetProbe(_, _, _, _, _)
GetProbe(cdb, key, hash_val, table_entry, i) ==
    IF i >= table_entry.length THEN GetNone
    ELSE LET starting_slot == ShrMod(hash_val, table_entry.length)
             slot_to_check == (starting_slot + i) % table_entry.length
             slot_offset == table_entry.offset + (slot_to_check * 16)
             slot_buffer == read_exact_at(cdb.reader, 16, slot_offset)
             entry_hash == FromLeBytes64([b \in 1..8 |-> slot_buffer.bytes[b]])
             data_offset == FromLeBytes64([b \in 1..8 |-> slot_buffer.bytes[8 + b]])
         IN  IF ~slot_buffer.ok THEN GetErr
             ELSE IF entry_hash = Zero64 /\ data_offset = Zero64 THEN GetNone
             ELSE IF entry_hash = hash_val
             THEN LET r == get_value_at(cdb.reader, U64ToNat(data_offset), key)
                  IN  IF r.kind = "None"
                      THEN GetProbe(cdb, key, hash_val, table_entry, i + 1)
                      ELSE r
             ELSE GetProbe(cdb, key, hash_val, table_entry, i + 1)

\* Cdb::get
get(cdb, key) ==
    LET hash_val == Hash(key)
        table_idx == LowByte(hash_val)
        table_entry == cdb.header[table_idx]
    IN  IF table_entry.length = 0 THEN GetNone
        ELSE GetProbe(cdb, key, hash_val, table_entry, 0)

\* ---------------------------------------------------------------------------
\* The reader on a memory map (cdb.rs, feature mmap): the map is the bytes of
\* the file, and every read is a slice of it after a test of its bounds.

\* &mmap[start..end]
MmapSlice(mmap, start, end) ==
    AsSeq([i \in 1 .. (end - start) |-> ReadByte(mmap, start + i - 1)])

\* Cdb::open_mmap: the directory decoded from the first HEADER_SIZE bytes of
\* the map (read_header_from_mmap_internal), an error on a shorter map.
CdbOpenMmap(f) ==
    IF f.len < HEADER_SIZE
    THEN [ok |-> FALSE, mmap |-> f, header |-> [i \in Tables |-> DefaultTableEntry]]
    ELSE LET header_buf == MmapSlice(f, 0, HEADER_SIZE)
         IN  [ok |-> TRUE, mmap |-> f,
              header |-> [i \in Tables |->
                  [offset |-> U64ToNat(FromLeBytes64(
                                 [b \in 1..8 |-> header_buf[(i * 16) + b]])),
                   length |-> U64ToNat(FromLeBytes64(
                                 [b \in 1..8 |-> header_buf[(i * 16) + 8 + b]]))]]]

\* read_tuple_from_mmap: two little-endian u64 from the 16 bytes at offset.
read_tuple_from_mmap(mmap, offset) ==
    LET start == offset
        end == start + 16
    IN  IF end > mmap.len THEN [ok |-> FALSE, first |-> Zero64, second |-> Zero64]
        ELSE LET bytes == MmapSlice(mmap, start, end)
             IN  [ok |-> TRUE,
                  first |-> FromLeBytes64(SubSeq(bytes, 1, 8)),
                  second |-> FromLeBytes64(SubSeq(bytes, 9, 16))]

\* Faulty get_value_at_mmap: the value is taken from where the key starts.
get_value_at_mmap_ValueAtKey(mmap, data_offset, expected_key) ==
    LET len_offset_usize == data_offset
    IN  IF len_offset_usize + 8 > mmap.len THEN GetErr
        ELSE LET key_len == FromLeBytes32(MmapSlice(mmap, len_offset_usize,
                                                    len_offset_usize + 4))
                 val_len == FromLeBytes32(MmapSlice(mmap, len_offset_usize + 4,
                                                    len_offset_usize + 8))
                 key_start == data_offset + 8
                 key_end == key_start + key_len
             IN  IF key_len # Len(expected_key) THEN GetNone
                 ELSE IF key_end > mmap.len THEN GetErr
                 ELSE IF MmapSlice(mmap, key_start, key_end) # expected_key THEN GetNone
                 ELSE IF key_start + val_len > mmap.len THEN GetErr
                 ELSE GetSome(MmapSlice(mmap, key_start, key_start + val_len))

\* Cdb::get_value_at_mmap: the lengths in the 8 bytes at data_offset, the key
\* 8 bytes further, the value right after the key, each slice after a test of
\* its end against the length of the map.
get_value_at_mmap(mmap, data_offset, expected_key) ==
    LET len_offset_usize == data_offset
    IN  IF len_offset_usize + 8 > mmap.len THEN GetErr
        ELSE LET key_len == FromLeBytes32(MmapSlice(mmap, len_offset_usize,
                                                    len_offset_usize + 4))
                 val_len == FromLeBytes32(MmapSlice(mmap, len_offset_usize + 4,
                                                    len_offset_usize + 8))
             IN  IF key_len # Len(expected_key) THEN GetNone
                 ELSE IF expected_key = <<>>
                 THEN IF val_len > 0
                      THEN LET start == data_offset + 8
                               end == start + val_len
                           IN  IF end > mmap.len THEN GetErr
                               ELSE GetSome(MmapSlice(mmap, start, end))
                      ELSE GetSome(<<>>)
                 ELSE LET key_start == data_offset + 8
                          key_end == key_start + key_len
                      IN  IF key_end > mmap.len THEN GetErr
                          ELSE IF MmapSlice(mmap, key_start, key_end) # expected_key
                          THEN GetNone
                          ELSE IF val_len > 0
                          THEN LET val_start == key_end
                                   val_end == val_start + val_len
                               IN  IF val_end > mmap.len THEN GetErr
                                   ELSE GetSome(MmapSlice(mmap, val_start, val_end))
                          ELSE GetSome(<<>>)

\* The probe loop of Cdb::get on a reader with a map, from turn i on.
RECURSIVE GetProbeMmap(_, _, _, _, _)
GetProbeMmap(cdb, key, hash_val, table_entry, i) ==
    IF i >= table_entry.length THEN GetNone
    ELSE LET starting_slot == ShrMod(hash_val, table_entry.length)
             slot_to_check == (starting_slot + i) % table_entry.length
             slot_offset == table_entry.offset + (slot_to_check * 16)
             slot == read_tuple_from_mmap(cdb.mmap, slot_offset)
             entry_hash == slot.first
             data_offset == slot.second
         IN  IF ~slot.ok THEN GetErr
             ELSE IF entry_hash = Zero64 /\ data_offset = Zero64 THEN GetNone
             ELSE IF entry_hash = hash_val
             THEN LET r == get_value_at_mmap(cdb.mmap, U64ToNat(data_offset), key)
                  IN  IF r.kind = "None"
                      THEN GetProbeMmap(cdb, key, hash_val, table_entry, i + 1)
                      ELSE r
             ELSE GetProbeMmap(cdb, key, hash_val, table_entry, i + 1)

\* Cdb::get on a reader with a map.
get_mmap(cdb, key) ==
    LET hash_val == Hash(key)
        table_idx == LowByte(hash_val)
        table_entry == cdb.header[table_idx]
    IN  IF table_entry.length = 0 THEN GetNone
        ELSE GetProbeMmap(cdb, key, hash_val, table_entry, 0)

Min(S) == CHOOSE x \in S : \A y \in S : x <= y

\* Faulty CdbIterator::new: the offsets below HEADER_SIZE are taken too.
CdbIteratorNewAnyOffset(cdb) ==
    LET valid == { cdb.header[i].offset : i \in
                     { j \in Tables : /\ cdb.header[j].length > 0
                                      /\ cdb.header[j].offset > 0 } }
    IN  [current_pos |-> HEADER_SIZE,
         end_pos |-> IF valid # {} THEN Min(valid) ELSE HEADER_SIZE]

\* CdbIterator::new: the cursor at the end of the header, the end at the lowest
\* subtable offset, or at the end of the header when there is no subtable.
CdbIteratorNew(cdb) ==
    LET valid == { cdb.header[i].offset : i \in
                     { j \in Tables : /\ cdb.header[j].length > 0
                                      /\ cdb.header[j].offset > 0
                                      /\ cdb.header[j].offset >= HEADER_SIZE } }
    IN  [current_pos |-> HEADER_SIZE,
         end_pos |-> IF valid # {} THEN Min(valid) ELSE HEADER_SIZE]

\* CdbIterator::next: what it yields ("None", "Err" or "Item" with the pair) and
\* the iterator it leaves.  The lengths are read at the cursor, the key 16
\* bytes further, the value right after the key.
IterNext(cdb, it) ==
    IF it.current_pos >= it.end_pos
    THEN [kind |-> "None", key |-> <<>>, value |-> <<>>, it |-> it]
    ELSE LET t == read_tuple(cdb.reader, it.current_pos)
             key_len == t.first
             val_len == t.second
             record_data_offset == it.current_pos + 16
             total_record_len_with_header == 16 + key_len + val_len
             NoBytes == [ok |-> TRUE, bytes |-> <<>>]
             key_buf == IF key_len > 0
                        THEN read_exact_at(cdb.reader, key_len, record_data_offset)
                        ELSE NoBytes
             val_buf == IF val_len > 0
                        THEN read_exact_at(cdb.reader, val_len,
                                           record_data_offset + key_len)
                        ELSE NoBytes
             err == [kind |-> "Err", key |-> <<>>, value |-> <<>>, it |-> it]
         IN  IF ~t.ok THEN err
             ELSE IF it.current_pos + total_record_len_with_header > it.end_pos THEN err
             ELSE IF ~key_buf.ok THEN err
             ELSE IF ~val_buf.ok THEN err
             ELSE [kind |-> "Item", key |-> key_buf.bytes, value |-> val_buf.bytes,
                   it |-> [it EXCEPT !.current_pos = @ + total_record_len_with_header]]

\* Driving an iterator until it is exhausted or fails: the pairs it yielded, in
\* order, and whether it ended on an error.
RECURSIVE IterDrain(_, _, _)
IterDrain(cdb, it, acc) ==
    LET n == IterNext(cdb, it)
    IN  IF n.kind = "None" THEN [items |-> acc, err |-> FALSE]
        ELSE IF n.kind = "Err" THEN [items |-> acc, err |-> TRUE]
        ELSE IterDrain(cdb, n.it, Append(acc, << n.key, n.value >>))

IterAll(cdb) == IterDrain(cdb, CdbIteratorNew(cdb), <<>>)

\* ---------------------------------------------------------------------------
\* The builder as a state machine.

\* Faulty put: the entry records the data cursor as it is after the record.
PutStepOffsetAfter(b, key, value) ==
    LET hash_val == Hash(key)
        table_idx == LowByte(hash_val)
        after == b.current_data_offset + PutAdvance(key, value)
    IN  [writer |-> WriteAt(b.writer, b.current_data_offset, PutBytes(key, value)),
         entries_by_table |->
             [b.entries_by_table EXCEPT ![table_idx] =
                 Append(@, [hash_val |-> hash_val, offset |-> after])],
         current_data_offset |-> after]

\* Faulty put: the entry goes to the list of the subtable after that of the
\* low byte of the hash.
PutStepNextTable(b, key, value) ==
    LET hash_val == Hash(key)
        table_idx == (LowByte(hash_val) + 1) % NUM_TABLES
    IN  [writer |-> WriteAt(b.writer, b.current_data_offset, PutBytes(key, value)),
         entries_by_table |->
             [b.entries_by_table EXCEPT ![table_idx] =
                 Append(@, [hash_val |-> hash_val, offset |-> b.current_data_offset])],
         current_data_offset |-> b.current_data_offset + PutAdvance(key, value)]

\* Faulty put: the entry records the offset of the record from the end of the
\* directory, so that the first record has offset 0.
PutStepOffsetFromData(b, key, value) ==
    LET hash_val == Hash(key)
        table_idx == LowByte(hash_val)
    IN  [writer |-> WriteAt(b.writer, b.current_data_offset, PutBytes(key, value)),
         entries_by_table |->
             [b.entries_by_table EXCEPT ![table_idx] =
                 Append(@, [hash_val |-> hash_val,
                            offset |-> b.current_data_offset - HEADER_SIZE])],
         current_data_offset |-> b.current_data_offset + PutAdvance(key, value)]

\* What put does to an unfinalized builder b = [writer, entries_by_table,
\* current_data_offset]: the record written at the cursor, the entry appended
\* to the subtable of the key's hash, the cursor advanced.
PutStep(b, key, value) ==
    LET hash_val == Hash(key)
        table_idx == LowByte(hash_val)
    IN  [writer |-> WriteAt(b.writer, b.current_data_offset, PutBytes(key, value)),
         entries_by_table |->
             [b.entries_by_table EXCEPT ![table_idx] =
                 Append(@, [hash_val |-> hash_val, offset |-> b.current_data_offset])],
         current_data_offset |-> b.current_data_offset + PutAdvance(key, value)]

\* The builder as CdbWriter::new leaves it.
BuilderNew ==
    /\ writer = WriterNew(EmptySink)
    /\ entries_by_table = Sparse([i \in Tables |-> <<>>], <<>>)
    /\ is_finalized = FALSE
    /\ current_data_offset = HEADER_SIZE
    /\ alive = TRUE
    /\ inner = NoSink
    /\ frozen = NoReader
    /\ ret = [op |-> "new", res |-> "Ok"]
    /\ puts = <<>>
    /\ finalize_calls = 0
    /\ pc = "idle"
    /\ fin = NoFin
    /\ failures = 0

Init ==
    /\ BuilderNew
    /\ hasher = NoHasher
    /\ hx = NoHx
    /\ ReaderParked
    /\ rx = NoExact

\* Faulty put: is_finalized is not consulted.
PutUnguarded(key, value) ==
    /\ alive
    /\ pc = "idle"
    /\ Len(puts) < MaxPuts
    /\ LET b == PutStep([writer |-> writer,
                         entries_by_table |-> Dense(entries_by_table, <<>>),
                         current_data_offset |-> current_data_offset],
                        key, value)
       IN  /\ writer' = b.writer
           /\ entries_by_table' = Sparse(b.entries_by_table, <<>>)
           /\ current_data_offset' = b.current_data_offset
    /\ puts' = Append(puts, << key, value >>)
    /\ ret' = [op |-> "put", res |-> "Ok"]
    /\ UNCHANGED << is_finalized, alive, inner, frozen, finalize_calls, pc, fin >>
    /\ UNCHANGED notBuilder

\* CdbWriter::put
Put(key, value) ==
    /\ alive
    /\ pc = "idle"
    /\ IF is_finalized
       THEN /\ ret' = [op |-> "put", res |-> "WriterFinalized"]
            /\ UNCHANGED << writer, entries_by_table, current_data_offset, puts >>
       ELSE /\ Len(puts) < MaxPuts
            /\ LET b == PutStep([writer |-> writer,
                                 entries_by_table |-> Dense(entries_by_table, <<>>),
                                 current_data_offset |-> current_data_offset],
                                key, value)
               IN  /\ writer' = b.writer
                   /\ entries_by_table' = Sparse(b.entries_by_table, <<>>)
                   /\ current_data_offset' = b.current_data_offset
            /\ puts' = Append(puts, << key, value >>)
            /\ ret' = [op |-> "put", res |-> "Ok"]
    /\ UNCHANGED << is_finalized, alive, inner, frozen, finalize_calls, pc, fin >>
    /\ UNCHANGED notBuilder

\* Faulty finalize: a call on a finalized builder is rejected like a put.
FinalizeSecondFails ==
    /\ alive
    /\ pc = "idle"
    /\ IF is_finalized
       THEN /\ ret' = [op |-> "finalize", res |-> "WriterFinalized"]
            /\ UNCHANGED << writer, is_finalized >>
       ELSE /\ writer' = FooterAndHeader(writer, Dense(entries_by_table, <<>>),
                                           current_data_offset)
            /\ is_finalized' = TRUE
            /\ ret' = [op |-> "finalize", res |-> "Ok"]
    /\ finalize_calls' = IF finalize_calls = 0 THEN 1 ELSE 2
    /\ UNCHANGED << entries_by_table, current_data_offset, alive, inner, frozen, puts, pc, fin >>
    /\ UNCHANGED notBuilder

\* Faulty finalize: the subtables are visited in an order that is not fixed
\* (as when they are kept in a hash map), here from any subtable on, wrapping.
FinalizeAnyOrder ==
    /\ alive
    /\ pc = "idle"
    /\ IF is_finalized
       THEN UNCHANGED << writer, is_finalized >>
       ELSE /\ \E first \in Tables :
                 LET st0 == [sink |-> writer, pos |-> current_data_offset,
                             hdr |-> [i \in Tables |-> DefaultTableEntry]]
                     entries == Dense(entries_by_table, <<>>)
                     st1 == FooterLoop(st0, entries, first, NUM_TABLES)
                     st2 == FooterLoop(st1, entries, 0, first)
                 IN  writer' = WriteHeader(st2.sink, st2.hdr)
            /\ is_finalized' = TRUE
    /\ ret' = [op |-> "finalize", res |-> "Ok"]
    /\ finalize_calls' = IF finalize_calls = 0 THEN 1 ELSE 2
    /\ UNCHANGED << entries_by_table, current_data_offset, alive, inner, frozen, puts, pc, fin >>
    /\ UNCHANGED notBuilder

\* CdbWriter::finalize: write_footer_and_header, then flush.
Finalize ==
    /\ alive
    /\ pc = "idle"
    /\ IF is_finalized
       THEN UNCHANGED << writer, is_finalized >>
       ELSE /\ writer' = FooterAndHeader(writer, Dense(entries_by_table, <<>>),
                                           current_data_offset)
            /\ is_finalized' = TRUE
    /\ ret' = [op |-> "finalize", res |-> "Ok"]
    /\ finalize_calls' = IF finalize_calls = 0 THEN 1 ELSE 2
    /\ UNCHANGED << entries_by_table, current_data_offset, alive, inner, frozen, puts, pc, fin >>
    /\ UNCHANGED notBuilder

\* Faulty into_inner: the sink is handed out whether finalized or not.
IntoInnerUnchecked ==
    /\ alive
    /\ pc = "idle"
    /\ alive' = FALSE
    /\ inner' = [some |-> TRUE, sink |-> writer]
    /\ ret' = [op |-> "into_inner", res |-> "Ok"]
    /\ UNCHANGED << writer, entries_by_table, is_finalized, current_data_offset,
                    frozen, puts, finalize_calls, pc, fin >>
    /\ UNCHANGED notBuilder

\* CdbWriter::into_inner: consumes the builder either way.
IntoInner ==
    /\ alive
    /\ pc = "idle"
    /\ alive' = FALSE
    /\ IF ~is_finalized
       THEN /\ inner' = NoSink
            /\ ret' = [op |-> "into_inner", res |-> "WriterNotFinalized"]
       ELSE /\ inner' = [some |-> TRUE, sink |-> writer]
            /\ ret' = [op |-> "into_inner", res |-> "Ok"]
    /\ UNCHANGED << writer, entries_by_table, is_finalized, current_data_offset,
                    frozen, puts, finalize_calls, pc, fin >>
    /\ UNCHANGED notBuilder

\* What freeze returns: the reader Cdb::open makes of the bytes of the sink.
Opened(f) ==
    LET cdb == CdbNew(f)
    IN  [some |-> TRUE, ok |-> cdb.ok, reader |-> cdb.reader,
         header |-> Sparse(cdb.header, DefaultTableEntry)]

\* Faulty freeze: the file is reopened without write_footer_and_header.
FreezeUnfinalized ==
    /\ alive
    /\ pc = "idle"
    /\ alive' = FALSE
    /\ frozen' = Opened(writer)
    /\ ret' = [op |-> "freeze", res |-> "Ok"]
    /\ UNCHANGED << writer, is_finalized, entries_by_table, current_data_offset,
                    inner, puts, finalize_calls, pc, fin >>
    /\ UNCHANGED notBuilder

\* CdbWriter::freeze: write_footer_and_header, flush, then Cdb::open on the
\* path of the sink.  It consumes the builder.
Freeze ==
    /\ alive
    /\ pc = "idle"
    /\ alive' = FALSE
    /\ IF is_finalized
       THEN UNCHANGED << writer, is_finalized >>
       ELSE /\ writer' = FooterAndHeader(writer, Dense(entries_by_table, <<>>),
                                           current_data_offset)
            /\ is_finalized' = TRUE
    /\ frozen' = Opened(writer')
    /\ ret' = [op |-> "freeze", res |-> "Ok"]
    /\ UNCHANGED << entries_by_table, current_data_offset, inner, puts,
                    finalize_calls, pc, fin >>
    /\ UNCHANGED notBuilder

Next ==
    \/ \E key \in PutKeys, value \in Vals : Put(key, value)
    \/ Finalize
    \/ IntoInner
    \/ Freeze

Spec == Init /\ [][Next]_vars

\* ---------------------------------------------------------------------------
\* finalize one write at a time: the call, the slot array of each non-empty
\* subtable, the header, the return.  Between these steps the sink holds what
\* has been written so far.

\* The non-empty subtables from index from on.
PendingTables(from) ==
    { i \in Tables : i >= from /\ Dense(entries_by_table, <<>>)[i] # <<>> }

\* finalize is called: it returns at once on a finalized builder, and
\* otherwise enters the loop over the subtables at the data cursor.
FinalizeBegin ==
    /\ alive
    /\ pc = "idle"
    /\ IF is_finalized
       THEN /\ ret' = [op |-> "finalize", res |-> "Ok"]
            /\ finalize_calls' = IF finalize_calls = 0 THEN 1 ELSE 2
            /\ UNCHANGED << pc, fin >>
       ELSE /\ pc' = "tables"
            /\ fin' = [pos |-> current_data_offset, next |-> 0,
                       final_header_entries |->
                           Sparse([i \in Tables |-> DefaultTableEntry],
                                  DefaultTableEntry)]
            /\ UNCHANGED << ret, finalize_calls >>
    /\ UNCHANGED << writer, entries_by_table, is_finalized, current_data_offset,
                    alive, inner, frozen, puts >>
    /\ UNCHANGED notBuilder

\* The loop runs up to and through the next non-empty subtable, whose slot
\* array it writes.
FinalizeTable ==
    /\ pc = "tables"
    /\ PendingTables(fin.next) # {}
    /\ LET i == Min(PendingTables(fin.next))
           st == FooterLoop([sink |-> writer, pos |-> fin.pos,
                             hdr |-> Dense(fin.final_header_entries,
                                           DefaultTableEntry)],
                            Dense(entries_by_table, <<>>), fin.next, i + 1)
       IN  /\ writer' = st.sink
           /\ fin' = [pos |-> st.pos, next |-> i + 1,
                      final_header_entries |-> Sparse(st.hdr, DefaultTableEntry)]
    /\ UNCHANGED << entries_by_table, is_finalized, current_data_offset, alive,
                    inner, frozen, ret, puts, finalize_calls, pc >>
    /\ UNCHANGED notBuilder

\* The loop runs out, the header is rewritten and the builder marked finalized.
FinalizeHeader ==
    /\ pc = "tables"
    /\ PendingTables(fin.next) = {}
    /\ LET st == FooterLoop([sink |-> writer, pos |-> fin.pos,
                             hdr |-> Dense(fin.final_header_entries,
                                           DefaultTableEntry)],
                            Dense(entries_by_table, <<>>), fin.next, NUM_TABLES)
       IN  /\ writer' = WriteHeader(st.sink, st.hdr)
           /\ fin' = [pos |-> st.pos, next |-> NUM_TABLES,
                      final_header_entries |-> Sparse(st.hdr, DefaultTableEntry)]
    /\ is_finalized' = TRUE
    /\ pc' = "flush"
    /\ UNCHANGED << entries_by_table, current_data_offset, alive, inner, frozen, ret,
                    puts, finalize_calls >>
    /\ UNCHANGED notBuilder

\* finalize flushes and returns Ok.
FinalizeReturn ==
    /\ pc = "flush"
    /\ pc' = "idle"
    /\ fin' = NoFin
    /\ ret' = [op |-> "finalize", res |-> "Ok"]
    /\ finalize_calls' = IF finalize_calls = 0 THEN 1 ELSE 2
    /\ UNCHANGED << writer, entries_by_table, is_finalized, current_data_offset,
                    alive, inner, frozen, puts >>
    /\ UNCHANGED notBuilder

NextSteps ==
    \/ \E key \in PutKeys, value \in Vals : Put(key, value)
    \/ FinalizeBegin
    \/ FinalizeTable
    \/ FinalizeHeader
    \/ FinalizeReturn
    \/ IntoInner

SpecSteps == Init /\ [][NextSteps]_vars

\* A builder run from scratch over a put sequence and finalized: its sink.
RECURSIVE BuildPuts(_, _)
BuildPuts(b, ps) ==
    IF ps = <<>> THEN b
    ELSE BuildPuts(PutStep(b, Head(ps)[1], Head(ps)[2]), Tail(ps))

Build(ps) ==
    LET b == BuildPuts([writer |-> WriterNew(EmptySink),
                        entries_by_table |-> [i \in Tables |-> <<>>],
                        current_data_offset |-> HEADER_SIZE], ps)
    IN  FooterAndHeader(b.writer, b.entries_by_table, b.current_data_offset)

\* ---------------------------------------------------------------------------
\* The hashers on their own: a CdbHash (cdb64/src/hash.rs) and a CDBHash
\* (src/hash.rs) are created and fed the same bytes, one at a time; key is the
\* bytes written so far.  The builder is left as created.

\* CdbHash::new and CDBHash::new, in a build with or without overflow checks.
HashNew(checks) ==
    [on |-> TRUE, key |-> <<>>, state |-> U64FromNat(CDB_HASH_START_VALUE),
     cdbhash |-> [v |-> U64FromNat(CDB_HASH_START_VALUE), panicked |-> FALSE],
     overflow_checks |-> checks, last |-> [op |-> "-", i |-> Zero64]]

InitHash ==
    /\ BuilderNew
    /\ \E checks \in BOOLEAN : hasher = HashNew(checks)
    /\ hx = NoHx
    /\ ReaderParked
    /\ rx = NoExact

\* Hasher::write of one byte, on both hashers.
HashWriteByte(byte) ==
    /\ hasher.on
    /\ Len(hasher.key) < MaxKeyLen
    /\ hasher' = [hasher EXCEPT
                     !.key = Append(@, byte),
                     !.state = HashByte(@, byte),
                     !.cdbhash = CDBHashByte(@, byte, hasher.overflow_checks),
                     !.last = [op |-> "write", i |-> Zero64]]
    /\ UNCHANGED notHasher

\* Hasher::write of a slice of any length, on both hashers.
HashWriteChunk(bytes) ==
    /\ hasher.on
    /\ Len(hasher.key) + Len(bytes) <= MaxKeyLen
    /\ hasher' = [hasher EXCEPT
                     !.key = @ \o bytes,
                     !.state = HashWrite(@, bytes),
                     !.cdbhash = CDBHashWrite(@, bytes, hasher.overflow_checks),
                     !.last = [op |-> "write", i |-> Zero64]]
    /\ UNCHANGED notHasher

\* Hasher::write_u64 on the CdbHash: self.write(&i.to_le_bytes()); the CDBHash,
\* which has no write_u64, is written the same bytes.
HashWriteU64(i) ==
    /\ hasher.on
    /\ Len(hasher.key) + 8 <= MaxKeyLen
    /\ hasher' = [hasher EXCEPT
                     !.key = @ \o ToLeBytes64(i),
                     !.state = HashWrite(@, ToLeBytes64(i)),
                     !.cdbhash = CDBHashWrite(@, ToLeBytes64(i), hasher.overflow_checks),
                     !.last = [op |-> "write_u64", i |-> i]]
    /\ UNCHANGED notHasher

NextHash ==
    \/ \E byte \in HashBytes : HashWriteByte(byte)
    \/ \E bytes \in HashChunks : HashWriteChunk(bytes)
    \/ \E i \in HashU64s : HashWriteU64(i)

SpecHash == InitHash /\ [][NextHash]_vars

\* ---------------------------------------------------------------------------
\* The reader on its own: a file is given, Cdb::new opens it, get calls and an
\* iterator run on the reader, each one positional read (read_exact_at) at a
\* time, in any interleaving.  The builder is left as created.

\* Two keys of the same 64-bit hash and the same length, with different values.
CollisionPuts == << << <<2, 195>>, <<7>> >>, << <<1, 96>>, <<>> >> >>

\* The file of the builder fed CollisionPuts.
CollisionBuilt == Build(CollisionPuts)

\* The file of a build with a hasher under which <<2>> has the hash that
\* <<1, 96>> and <<2, 195>> have with CdbHash, and which is CdbHash elsewhere,
\* fed (<<2>>, <<195, 7>>) then (<<1, 96>>, <<>>): the bytes of
\* Build(CollisionPuts) but for the two lengths of the first record.
CollisionFile == WriteAt(CollisionBuilt, HEADER_SIZE, write_tuple(1, 2))

\* Three puts, two of them in subtable 5 and one in subtable 68.
SourcePuts3 == << << <<>>, <<7>> >>, << <<160>>, <<>> >>, << <<1, 96>>, <<7>> >> >>

\* The file of three records with the header of its second record, at 4113,
\* declaring a key of 1 byte and a value of 40 bytes: more than the data
\* region, which ends at 4149, holds.
OverlongFile == WriteAt(Build(SourcePuts3), 4113, write_tuple(1, 40))

\* The put sequences the files are built from.
SourcePuts ==
    { <<>>,
      SourcePuts3,
      << << <<1, 96>>, <<7>> >>, << <<1, 96>>, <<>> >> >>,
      << << <<160>>, <<7>> >>, << <<>>, <<>> >>, << <<160>>, <<>> >> >>,
      CollisionPuts }

\* The first n bytes of a file.
Truncate(f, n) ==
    [len |-> n, nz |-> [o \in { q \in DOMAIN f.nz : q < n } |-> f.nz[o]]]

\* The lengths the file of three records (at 4096, 4113 and 4130, its slot
\* arrays at 4149 and 4213) is cut to: nothing, ten bytes short of a header,
\* the header alone, then in the first and the second record, before and in
\* the third record, after the last record and after the first slot array.
CutLens ==
    { 0, HEADER_SIZE - 10, HEADER_SIZE, HEADER_SIZE + 4, 4117, 4130, 4140, 4149, 4213 }

\* A file that is a directory and nothing else, entry i being
\* (offset i + 256 * (i % 2), length i % 3).
PatternHeader ==
    WriteAt(EmptySink, 0,
            AsSeq([n \in 1 .. HEADER_SIZE |->
                      LET i == (n - 1) \div 16
                          b == (n - 1) % 16
                      IN  IF b = 0 THEN i
                          ELSE IF b = 1 THEN i % 2
                          ELSE IF b = 8 THEN i % 3
                          ELSE 0]))

\* The files: finalized ones, cuts of one of them, and the bare directory.
Sources ==
    { Build(ps) : ps \in SourcePuts }
        \cup { Truncate(Build(SourcePuts3), n) : n \in CutLens }
        \cup { PatternHeader, CollisionFile, OverlongFile }

\* The keys looked up.
ReadKeys == { <<160>>, <<1, 96>>, <<2, 195>> }

InitReader ==
    /\ BuilderNew
    /\ hasher = NoHasher
    /\ hx = NoHx
    /\ source \in Sources
    /\ opened = NoReader
    /\ gets = [g \in Gets |-> GetIdle]
    /\ iter = NoIter
    /\ rx = NoExact

\* The reader Cdb::new returned, as a Cdb.
OpenedCdb ==
    [ok |-> opened.ok, reader |-> opened.reader,
     header |-> Dense(opened.header, DefaultTableEntry)]

\* Cdb::new on the file: the reader, or an error and no reader.
Open ==
    /\ ~opened.some
    /\ opened' = Opened(source)
    /\ UNCHANGED << source, gets, iter >>
    /\ UNCHANGED notReader

GetDone(result) == [GetIdle EXCEPT !.phase = "done", !.result = result]

\* Faulty loop bound: one turn more than the table has slots.
GetContinueOneMore(c, l) ==
    IF l.i + 1 <= c.header[LowByte(Hash(l.key))].length
    THEN [l EXCEPT !.phase = "slot", !.i = l.i + 1]
    ELSE [GetDone(GetNone) EXCEPT !.key = l.key]

\* get moves on to the next slot of the probe sequence, or runs out of slots.
GetContinue(c, l) ==
    IF l.i + 1 < c.header[LowByte(Hash(l.key))].length
    THEN [l EXCEPT !.phase = "slot", !.i = l.i + 1]
    ELSE [GetDone(GetNone) EXCEPT !.key = l.key]

\* Cdb::get up to its first read: the hash, the directory entry, the test of
\* its length.
GetBegin(c, key) ==
    IF c.header[LowByte(Hash(key))].length = 0
    THEN [GetDone(GetNone) EXCEPT !.key = key]
    ELSE [GetIdle EXCEPT !.phase = "slot", !.key = key]

\* The slot a get call is at: slot_to_check in turn i of its loop.
SlotToCheck(c, l) ==
    LET table_entry == c.header[LowByte(Hash(l.key))]
        starting_slot == ShrMod(Hash(l.key), table_entry.length)
    IN  (starting_slot + l.i) % table_entry.length

\* The slots read by a get call, after the read it makes in state l.
SlotsRead(c, l) ==
    IF l.phase = "slot" THEN Append(l.slots, SlotToCheck(c, l)) ELSE l.slots

\* Faulty match arm: a record of another key under the hash looked up ends the
\* lookup with not-found.
KeyMismatchNotFound(c, l) ==
    [GetDone(GetNone) EXCEPT !.key = l.key, !.passed = l.passed + 1]

\* get_value_at returned None, the key of the record at data_offset not being
\* the key looked up: `None => continue`.
KeyMismatch(c, l) == [GetContinue(c, l) EXCEPT !.passed = l.passed + 1]

\* Faulty offsets: a slot is read at 16 times its number, the offset of its
\* subtable left out.
GetWantedNoBase(c, l) ==
    IF l.phase = "slot"
    THEN [n |-> 16, offset |-> SlotToCheck(c, l) * 16]
    ELSE IF l.phase = "tuple" THEN [n |-> 8, offset |-> l.data_offset]
    ELSE IF l.phase = "key" THEN [n |-> l.key_len, offset |-> l.data_offset + 8]
    ELSE [n |-> l.val_len, offset |-> l.data_offset + 8 + l.key_len]

\* The read a get call is about to make: its length and its offset.
GetWanted(c, l) ==
    IF l.phase = "slot"
    THEN LET table_entry == c.header[LowByte(Hash(l.key))]
             starting_slot == ShrMod(Hash(l.key), table_entry.length)
             slot_to_check == (starting_slot + l.i) % table_entry.length
         IN  [n |-> 16, offset |-> table_entry.offset + (slot_to_check * 16)]
    ELSE IF l.phase = "tuple" THEN [n |-> 8, offset |-> l.data_offset]
    ELSE IF l.phase = "key" THEN [n |-> l.key_len, offset |-> l.data_offset + 8]
    ELSE [n |-> l.val_len, offset |-> l.data_offset + 8 + l.key_len]

\* Cdb::get and get_value_at from one read to the next: r is what the read
\* returned.
GetAfterRead(c, l, r) ==
    IF ~r.ok THEN [GetDone(GetErr) EXCEPT !.key = l.key]
    ELSE IF l.phase = "slot"
    THEN LET entry_hash == FromLeBytes64(SubSeq(r.bytes, 1, 8))
             data_offset == FromLeBytes64(SubSeq(r.bytes, 9, 16))
         IN  IF entry_hash = Zero64 /\ data_offset = Zero64
             THEN [GetDone(GetNone) EXCEPT !.key = l.key]
             ELSE IF entry_hash = Hash(l.key)
             THEN [l EXCEPT !.phase = "tuple", !.data_offset = U64ToNat(data_offset)]
             ELSE GetContinue(c, l)
    ELSE IF l.phase = "tuple"
    THEN LET key_len == FromLeBytes32(SubSeq(r.bytes, 1, 4))
             val_len == FromLeBytes32(SubSeq(r.bytes, 5, 8))
         IN  IF key_len # Len(l.key) THEN KeyMismatch(c, l)
             ELSE IF l.key = <<>>
             THEN IF val_len > 0
                  THEN [l EXCEPT !.phase = "value", !.key_len = key_len,
                                 !.val_len = val_len]
                  ELSE [GetDone(GetSome(<<>>)) EXCEPT !.key = l.key]
             ELSE [l EXCEPT !.phase = "key", !.key_len = key_len, !.val_len = val_len]
    ELSE IF l.phase = "key"
    THEN IF r.bytes # l.key THEN KeyMismatch(c, l)
         ELSE IF l.val_len > 0 THEN [l EXCEPT !.phase = "value"]
         ELSE [GetDone(GetSome(<<>>)) EXCEPT !.key = l.key]
    ELSE [GetDone(GetSome(r.bytes)) EXCEPT !.key = l.key]

\* The read the iterator is about to make: its length and its offset.
IterWanted(it) ==
    IF it.phase = "tuple" THEN [n |-> 8, offset |-> it.current_pos]
    ELSE IF it.phase = "key" THEN [n |-> it.key_len, offset |-> it.current_pos + 16]
    ELSE [n |-> it.val_len, offset |-> it.current_pos + 16 + it.key_len]

\* next() returns an error: the cursor stays where it is.
IterErr(it) ==
    [it EXCEPT !.phase = "tuple", !.key_len = 0, !.val_len = 0, !.key_buf = <<>>,
               !.last = "Err", !.errs = IF it.errs = 0 THEN 1 ELSE 2]

\* next() returns a pair: the cursor moves past the record.
IterItem(it, key_len, val_len, key, value) ==
    [it EXCEPT !.phase = "tuple", !.key_len = 0, !.val_len = 0, !.key_buf = <<>>,
               !.current_pos = it.current_pos + 16 + key_len + val_len,
               !.items = Append(it.items, << key, value >>),
               !.last = "Item"]

\* CdbIterator::next from one read to the next: r is what the read returned.
IterAfterRead(it, r) ==
    IF ~r.ok THEN IterErr(it)
    ELSE IF it.phase = "tuple"
    THEN LET key_len == FromLeBytes32(SubSeq(r.bytes, 1, 4))
             val_len == FromLeBytes32(SubSeq(r.bytes, 5, 8))
         IN  IF it.current_pos + 16 + key_len + val_len > it.end_pos THEN IterErr(it)
             ELSE IF key_len > 0
             THEN [it EXCEPT !.phase = "key", !.key_len = key_len, !.val_len = val_len]
             ELSE IF val_len > 0
             THEN [it EXCEPT !.phase = "value", !.key_len = key_len,
                             !.val_len = val_len]
             ELSE IterItem(it, key_len, val_len, <<>>, <<>>)
    ELSE IF it.phase = "key"
    THEN IF it.val_len > 0 THEN [it EXCEPT !.phase = "value", !.key_buf = r.bytes]
         ELSE IterItem(it, it.key_len, it.val_len, r.bytes, <<>>)
    ELSE IterItem(it, it.key_len, it.val_len, it.key_buf, r.bytes)

\* The offsets of the reads that the calls in flight are about to make.
InFlightOffsets ==
    { GetWanted(OpenedCdb, gets[g]).offset :
         g \in { h \in Gets : gets[h].phase \notin { "idle", "done" } } }
       \cup (IF iter.on /\ iter.current_pos < iter.end_pos
             THEN { IterWanted(iter).offset } ELSE {})

\* Faulty read_at: a seek on the position the reader shares, then a read from
\* that position; the read lands where the last seek of any caller went.
ReadPositionsShared(offset) == { offset } \cup InFlightOffsets

\* ReaderAt::read_at reads at the offset it is given, and moves no position.
ReadPositions(offset) == { offset }

\* A get call starts on the reader.
GetStart(g, key) ==
    /\ opened.some /\ opened.ok
    /\ gets[g].phase = "idle"
    /\ gets' = [gets EXCEPT ![g] = GetBegin(OpenedCdb, key)]
    /\ UNCHANGED << source, opened, iter >>
    /\ UNCHANGED notReader

\* A get call makes its next read.
GetRead(g) ==
    /\ gets[g].phase \notin { "idle", "done" }
    /\ LET c == OpenedCdb
           w == GetWanted(c, gets[g])
       IN  \E o \in ReadPositions(w.offset) :
             gets' = [gets EXCEPT ![g] =
                         LET l == GetAfterRead(c, gets[g],
                                               read_exact_at(c.reader, w.n, o))
                         IN  [l EXCEPT !.slots = SlotsRead(c, gets[g]),
                                       !.passed = Max(gets[g].passed, l.passed)]]
    /\ UNCHANGED << source, opened, iter >>
    /\ UNCHANGED notReader

\* Cdb::iter
IterNew ==
    /\ opened.some /\ opened.ok
    /\ ~iter.on
    /\ LET it == CdbIteratorNew(OpenedCdb)
       IN  iter' = [NoIter EXCEPT !.on = TRUE, !.current_pos = it.current_pos,
                                  !.end_pos = it.end_pos]
    /\ UNCHANGED << source, opened, gets >>
    /\ UNCHANGED notReader

\* next() is called, or goes on: it returns None at the end of the data, and
\* otherwise makes its next read.
IterRead ==
    /\ iter.on
    /\ IF iter.phase = "tuple" /\ iter.current_pos >= iter.end_pos
       THEN iter' = [iter EXCEPT !.last = "None"]
       ELSE LET w == IterWanted(iter)
            IN  \E o \in ReadPositions(w.offset) :
                  iter' = IterAfterRead(iter, read_exact_at(opened.reader, w.n, o))
    /\ UNCHANGED << source, opened, gets >>
    /\ UNCHANGED notReader

NextReader ==
    \/ Open
    \/ \E g \in Gets, key \in ReadKeys : GetStart(g, key)
    \/ \E g \in Gets : GetRead(g)
    \/ IterNew
    \/ IterRead

SpecReader == InitReader /\ [][NextReader]_vars

\* The reader with an iterator and no get call, next() being called again and
\* again once there is an iterator, as a caller that drains the iterator does.
NextIter ==
    \/ Open
    \/ IterNew
    \/ IterRead

SpecIter == InitReader /\ [][NextIter]_vars /\ WF_vars(IterRead)

\* ---------------------------------------------------------------------------
\* read_exact_at on its own, one read_at at a time: the source returns short
\* reads of any length, Interrupted errors, the end of the data, or a failure.
\* buf is the part of the buffer filled so far, cur the offset of the next
\* read_at, reads the number of calls of read_at so far.  The builder is left
\* as created.

\* The sources read, and the offsets read from.
ExactData == { <<>>, << 1, 2, 3 >>, << 1, 2, 3, 4, 5 >> }
ExactOffsets == 0 .. MaxOffset

\* The kinds of the errors of read_at other than Interrupted.
ErrorKinds == { "Other", "PermissionDenied" }

\* read_exact_at is called with a buffer of want bytes: without bytes to fill,
\* it returns at once.
ExactCall(data, want, offset) ==
    [on |-> TRUE, data |-> data, want |-> want, offset |-> offset, buf |-> <<>>,
     cur |-> offset, reads |-> 0, interrupts |-> 0, returned |-> NoReturn,
     result |-> IF want = 0 THEN "Ok" ELSE "-"]

InitExact ==
    /\ BuilderNew
    /\ hasher = NoHasher
    /\ hx = NoHx
    /\ ReaderParked
    /\ \E data \in ExactData, want \in 0 .. MaxBuf, offset \in ExactOffsets :
          rx = ExactCall(data, want, offset)

\* Faulty turn of the loop: the bytes read are taken off the buffer, the offset
\* is left where it was.
AfterReadSameOffset(x, n) ==
    LET buf == x.buf \o SubSeq(x.data, x.cur + 1, x.cur + n)
    IN  [x EXCEPT !.buf = buf, !.reads = x.reads + 1,
                  !.returned = [kind |-> "Ok", n |-> n],
                  !.result = IF Len(buf) = x.want THEN "Ok" ELSE "-"]

\* The turn of the loop on Ok(n): the n bytes read at cur are in the buffer,
\* the rest of the buffer is to fill from cur + n; a full buffer ends the loop.
AfterRead(x, n) ==
    LET buf == x.buf \o SubSeq(x.data, x.cur + 1, x.cur + n)
    IN  [x EXCEPT !.buf = buf, !.cur = x.cur + n, !.reads = x.reads + 1,
                  !.returned = [kind |-> "Ok", n |-> n],
                  !.result = IF Len(buf) = x.want THEN "Ok" ELSE "-"]

\* Faulty turn of the loop on an error: every error but Interrupted is reported
\* as the end of the data.
AfterErrAsEof(x, kind) ==
    [x EXCEPT !.reads = x.reads + 1,
              !.returned = [kind |-> kind, n |-> 0],
              !.interrupts = IF kind = "Interrupted" THEN x.interrupts + 1
                             ELSE x.interrupts,
              !.result = IF kind = "Interrupted" THEN "-" ELSE "UnexpectedEof"]

\* The turn of the loop on Err(e): an Interrupted error leaves the buffer and
\* the offset as they are for the next turn, any other error is returned.
AfterErr(x, kind) ==
    [x EXCEPT !.reads = x.reads + 1,
              !.returned = [kind |-> kind, n |-> 0],
              !.interrupts = IF kind = "Interrupted" THEN x.interrupts + 1
                             ELSE x.interrupts,
              !.result = IF kind = "Interrupted" THEN "-" ELSE kind]

\* read_at returns Ok(n), n at least 1 and at most what is asked and what the
\* source holds from cur on.
ReadAtOk(n) ==
    /\ rx.on /\ rx.result = "-"
    /\ n <= rx.want - Len(rx.buf)
    /\ rx.cur + n <= Len(rx.data)
    /\ rx' = AfterRead(rx, n)
    /\ UNCHANGED notExact

\* read_at returns Ok(0), the source holding nothing from cur on.
ReadAtEof ==
    /\ rx.on /\ rx.result = "-"
    /\ rx.cur >= Len(rx.data)
    /\ rx' = [rx EXCEPT !.reads = rx.reads + 1,
                         !.returned = [kind |-> "Ok", n |-> 0],
                         !.result = "UnexpectedEof"]
    /\ UNCHANGED notExact

\* read_at returns an Interrupted error: the same read_at is made again.
ReadAtInterrupted ==
    /\ rx.on /\ rx.result = "-"
    /\ rx.interrupts < MaxInterrupts
    /\ rx' = AfterErr(rx, "Interrupted")
    /\ UNCHANGED notExact

\* read_at returns another error, which read_exact_at returns.
ReadAtFails(kind) ==
    /\ rx.on /\ rx.result = "-"
    /\ rx' = AfterErr(rx, kind)
    /\ UNCHANGED notExact

NextExact ==
    \/ \E n \in 1 .. MaxBuf : ReadAtOk(n)
    \/ ReadAtEof
    \/ ReadAtInterrupted
    \/ \E kind \in ErrorKinds : ReadAtFails(kind)

SpecExact == InitExact /\ [][NextExact]_vars

\* ---------------------------------------------------------------------------
\* Properties.

\* A reader opened on the bytes the sink holds now.
Cdb == CdbNew(writer)

KeysPut == { puts[i][1] : i \in DOMAIN puts }

DistinctKeys == \A i, j \in DOMAIN puts : i # j => puts[i][1] # puts[j][1]

\* Whether put number i is the first put of its key.
IsFirst(i) == \A j \in DOMAIN puts : puts[j][1] = puts[i][1] => i <= j

\* The value of the first put of key k.
FirstValue(k) == puts[Min({ i \in DOMAIN puts : puts[i][1] = k })][2]

\* C1 (round trip): after finalize, when the keys put are pairwise distinct, a
\* reader on the sink returns for every key put the value put with it, and
\* not-found for every key that was never put.
Thm_C1 ==
    (is_finalized /\ DistinctKeys) =>
        LET cdb == Cdb
        IN  /\ cdb.ok
            /\ \A i \in DOMAIN puts : get(cdb, puts[i][1]) = GetSome(puts[i][2])
            /\ \A k \in GetKeys \ KeysPut : get(cdb, k) = GetNone

\* Three distinct keys were put, two of them probing from the same slot of one
\* subtable, the third with the hash of a key never put, and the build was
\* finalized.
Wit_C1 ==
    /\ is_finalized
    /\ DistinctKeys
    /\ KeysPut = { <<>>, <<160>>, <<1, 96>> }
    /\ LET cdb == Cdb
       IN  /\ get(cdb, <<1, 96>>).kind = "Some"
           /\ get(cdb, <<2, 195>>).kind = "None"

\* C2 (duplicate keys): after finalize, get of a key put more than once, other
\* keys of the same subtable in between or not, returns the value of the first
\* put of that key.
Thm_C2 ==
    is_finalized =>
        LET cdb == Cdb
        IN  \A k \in KeysPut : get(cdb, k) = GetSome(FirstValue(k))

\* A key was put twice with different values, a different key of the same
\* subtable between the two, and the build was finalized.
Wit_C2 ==
    /\ is_finalized
    /\ \E i, m, j \in DOMAIN puts :
          /\ i < m /\ m < j
          /\ puts[i][1] = puts[j][1]
          /\ puts[i][2] # puts[j][2]
          /\ puts[m][1] # puts[i][1]
          /\ LowByte(Hash(puts[m][1])) = LowByte(Hash(puts[i][1]))

\* C3 (iteration order and completeness): after finalize, a full iteration
\* yields exactly the pairs passed to put, in put order, and no error.
Claim_C3 ==
    is_finalized => IterAll(Cdb) = [items |-> puts, err |-> FALSE]

\* C4 (put after finalize): on a finalized builder every put fails with
\* WriterFinalized and leaves the sink, the entry lists and the data cursor as
\* they were.
Thm_C4 ==
    [][ (is_finalized /\ ret'.op = "put") =>
            /\ ret'.res = "WriterFinalized"
            /\ UNCHANGED << writer, entries_by_table, current_data_offset >> ]_vars

\* A put was rejected on a finalized builder that holds records.
Wit_C4 ==
    /\ is_finalized
    /\ ret = [op |-> "put", res |-> "WriterFinalized"]
    /\ Len(puts) >= 1

Thm_C6 ==
    [][ (is_finalized /\ ret'.op = "finalize") =>
            /\ ret'.res = "Ok"
            /\ UNCHANGED << writer, entries_by_table, is_finalized,
                            current_data_offset, alive, inner, frozen, puts >> ]_vars

\* finalize has returned at least twice on a builder that holds records.
Wit_C6 ==
    /\ finalize_calls = 2
    /\ is_finalized
    /\ ret = [op |-> "finalize", res |-> "Ok"]
    /\ Len(puts) >= 1

\* What a reader on the current bytes of the sink sees when no put is
\* observable: every get not-found, the iteration empty.
NothingObservable ==
    LET cdb == Cdb
    IN  /\ cdb.ok
        /\ \A k \in GetKeys : get(cdb, k) = GetNone
        /\ IterAll(cdb) = [items |-> <<>>, err |-> FALSE]

\* C7 as claimed (no put observable before finalize has returned): at every
\* point up to the return of finalize, its intermediate steps included, a
\* reader on the current bytes finds nothing.
Claim_C7 ==
    ~(is_finalized /\ pc = "idle") => NothingObservable

\* C7 as amended: at every point before finalize rewrites the header, a reader
\* on the current bytes finds nothing.
Thm_C7 ==
    ~is_finalized => NothingObservable

\* finalize is under way on a builder that holds records: a slot array is in
\* the sink, the header is not yet rewritten.
Wit_C7 ==
    /\ pc = "tables"
    /\ ~is_finalized
    /\ fin.next > 0
    /\ fin.pos > current_data_offset
    /\ writer.len = fin.pos

Thm_C9 ==
    (is_finalized /\ puts = <<>>) =>
        /\ writer.len = HEADER_SIZE
        /\ \A o \in 0 .. (HEADER_SIZE - 1) : ReadByte(writer, o) = 0
        /\ LET cdb == Cdb
           IN  /\ cdb.ok
               /\ \A i \in Tables : cdb.header[i] = [offset |-> 0, length |-> 0]
               /\ \A k \in GetKeys : get(cdb, k) = GetNone
               /\ IterNext(cdb, CdbIteratorNew(cdb)).kind = "None"

\* finalize has returned on a builder without any put.
Wit_C9 ==
    /\ is_finalized
    /\ puts = <<>>
    /\ ret = [op |-> "finalize", res |-> "Ok"]

\* C10 (empty key, empty value): after finalize, every record with an empty
\* key or an empty value that is the first of its key is returned by get, the
\* first record of the empty key included.
Thm_C10 ==
    is_finalized =>
        LET cdb == Cdb
        IN  \A i \in DOMAIN puts :
                ((puts[i][1] = <<>> \/ puts[i][2] = <<>>) /\ IsFirst(i)) =>
                    get(cdb, puts[i][1]) = GetSome(puts[i][2])

\* The empty key was put twice, first with a value and then with the empty
\* value, another key was put with the empty value, and the build was
\* finalized.
Wit_C10 ==
    /\ is_finalized
    /\ Len(puts) = 3
    /\ puts[1] = << <<>>, <<7>> >>
    /\ puts[2] = << <<>>, <<>> >>
    /\ puts[3][1] # <<>> /\ puts[3][2] = <<>>
    /\ get(Cdb, <<>>) = GetSome(<<7>>)

\* The reader freeze returned, as a Cdb.
FrozenCdb ==
    [ok |-> frozen.ok, reader |-> frozen.reader,
     header |-> Dense(frozen.header, DefaultTableEntry)]

\* C12 (freeze is finalize then open): the reader freeze returned has the
\* directory of, and answers every get and the iteration as, a reader opened on
\* the sink of a builder that was fed the same puts and finalized; also when
\* finalize had returned before freeze.
Thm_C12 ==
    frozen.some =>
        LET viaFreeze == FrozenCdb
            viaOpen == CdbNew(Build(puts))
        IN  /\ viaFreeze.ok
            /\ viaOpen.ok
            /\ viaFreeze.header = viaOpen.header
            /\ \A k \in GetKeys : get(viaFreeze, k) = get(viaOpen, k)
            /\ IterAll(viaFreeze) = IterAll(viaOpen)

\* freeze was called on a builder that holds three records in two subtables
\* and was never finalized before.
Wit_C12 ==
    /\ frozen.some
    /\ ret = [op |-> "freeze", res |-> "Ok"]
    /\ finalize_calls = 0
    /\ Len(puts) = 3
    /\ { LowByte(Hash(k)) : k \in KeysPut } = { 5, 68 }
    /\ get(FrozenCdb, <<1, 96>>).kind = "Some"

\* The default hash as specified, on the eight little-endian bytes of the
\* state: h * 33 modulo 2^64 by long multiplication, then the XOR of the byte
\* into the lowest byte, bit by bit.
RECURSIVE Times33(_, _)
Times33(bytes, carry) ==
    IF bytes = <<>> THEN <<>>
    ELSE LET t == (Head(bytes) * 33) + carry
         IN  << t % 256 >> \o Times33(Tail(bytes), t \div 256)

RECURSIVE XorBits(_, _, _)
XorBits(a, b, n) ==
    IF n = 0 THEN 0
    ELSE (IF (a % 2) = (b % 2) THEN 0 ELSE 1) + (2 * XorBits(a \div 2, b \div 2, n - 1))

RECURSIVE Djb64(_, _)
Djb64(h, key) ==
    IF key = <<>> THEN h
    ELSE LET m == Times33(h, 0)
         IN  Djb64([m EXCEPT ![1] = XorBits(m[1], Head(key), 8)], Tail(key))

\* 5381 = 0x1505
Djb64Start == << 5, 21, 0, 0, 0, 0, 0, 0 >>

\* The part of C13 that is about the values: both hashers, as far as they
\* run, hold the hash as specified of the bytes written so far.
HashValues ==
    hasher.on =>
        /\ ToLeBytes64(hasher.state) = Djb64(Djb64Start, hasher.key)
        /\ ~hasher.cdbhash.panicked =>
               ToLeBytes64(hasher.cdbhash.v) = Djb64(Djb64Start, hasher.key)
        /\ hasher.key = <<>> =>
               /\ hasher.state = U64FromNat(5381)
               /\ hasher.cdbhash.v = U64FromNat(5381)

\* C13 (default hash): from state 5381, every byte written updates the state
\* to ((h << 5) + h) XOR byte modulo 2^64, and no write traps on overflow; the
\* hash of the empty string is 5381.
Claim_C13 ==
    /\ HashValues
    /\ hasher.on => ~hasher.cdbhash.panicked

\* The pair of the put that a step performs, when it performs one.
PutDone == puts' # puts
LastPut == puts'[Len(puts')]

\* The part of C14 that is about the bytes: a successful put leaves at the old
\* data cursor the two 32-bit little-endian lengths, then the key, then the
\* value, and the header read back there gives the lengths.
PutWritesRecord ==
    LET p == current_data_offset
        key == LastPut[1]
        value == LastPut[2]
        t == read_tuple(writer', p)
    IN  /\ read_exact_at(writer', 8, p).bytes
               = ToLeBytes32(Len(key)) \o ToLeBytes32(Len(value))
        /\ t.ok /\ t.first = Len(key) /\ t.second = Len(value)
        /\ read_exact_at(writer', Len(key), p + 8).bytes = key
        /\ read_exact_at(writer', Len(value), p + 8 + Len(key)).bytes = value

PutLayout == [][ PutDone => PutWritesRecord ]_vars

\* C14 (record layout): every successful put writes at the data cursor the
\* 8-byte header of two little-endian 32-bit lengths, the key and the value,
\* and advances the data cursor by exactly 8 + key_len + val_len.
Claim_C14 ==
    [][ PutDone =>
          /\ PutWritesRecord
          /\ current_data_offset'
                 = current_data_offset + 8 + Len(LastPut[1]) + Len(LastPut[2]) ]_vars

\* What the data cursor advances by instead.
PutAdvances16 ==
    [][ PutDone =>
          current_data_offset'
              = current_data_offset + 16 + Len(LastPut[1]) + Len(LastPut[2]) ]_vars

\* The subtable of each put, and the number of records of subtable i (N_i).
TableOfPut == [j \in DOMAIN puts |-> LowByte(Hash(puts[j][1]))]
RecordsOf(i) == Cardinality({ j \in DOMAIN puts : TableOfPut[j] = i })

\* C15 (directory invariant): in a finalized file the directory entry of a
\* subtable without records is (offset 0, length 0), and that of a subtable
\* with N_i > 0 records has length >= 2 * N_i and offset >= 4096, so it is not
\* (0, 0).
Thm_C15 ==
    is_finalized =>
        LET cdb == Cdb
            tables == { TableOfPut[j] : j \in DOMAIN puts }
        IN  /\ cdb.ok
            /\ \A i \in Tables \ tables : cdb.header[i] = [offset |-> 0, length |-> 0]
            /\ \A i \in tables :
                  /\ cdb.header[i].length >= 2 * RecordsOf(i)
                  /\ cdb.header[i].offset >= 4096
                  /\ cdb.header[i] # [offset |-> 0, length |-> 0]

\* A finalized file with two records in subtable 5, one in subtable 68 and
\* none in the others.
Wit_C15 ==
    /\ is_finalized
    /\ RecordsOf(5) = 2
    /\ RecordsOf(68) = 1
    /\ Cdb.header[5].length = 4
    /\ Cdb.header[6] = [offset |-> 0, length |-> 0]

\* The slots of subtable i as the file holds them: (hash, offset) pairs, read
\* through the directory entry of the subtable.
SlotsOf(cdb, i) ==
    [n \in 1 .. cdb.header[i].length |->
        LET slot == read_exact_at(cdb.reader, 16,
                                  cdb.header[i].offset + (16 * (n - 1))).bytes
        IN  << FromLeBytes64(SubSeq(slot, 1, 8)),
               U64ToNat(FromLeBytes64(SubSeq(slot, 9, 16))) >>]

\* The offset of record j: the header, then the records before it.
RECURSIVE OffsetOfPut(_)
OffsetOfPut(j) ==
    IF j = 1 THEN HEADER_SIZE
    ELSE OffsetOfPut(j - 1) + PutAdvance(puts[j - 1][1], puts[j - 1][2])

\* C16 (slot population): in a finalized file the number of non-empty slots
\* of each subtable is the number of records put with that hash low byte, and
\* the (hash, offset) pair of each such record is in exactly one slot of the
\* subtable, also when several records have the same hash.
Thm_C16 ==
    is_finalized =>
        LET cdb == Cdb
        IN  \A i \in { TableOfPut[j] : j \in DOMAIN puts } :
              LET slots == SlotsOf(cdb, i)
              IN  /\ Cardinality({ n \in DOMAIN slots : slots[n] # << Zero64, 0 >> })
                         = RecordsOf(i)
                  /\ \A j \in DOMAIN puts :
                        TableOfPut[j] = i =>
                            Cardinality({ n \in DOMAIN slots :
                                slots[n] = << Hash(puts[j][1]), OffsetOfPut(j) >> }) = 1

\* A finalized file whose subtable 5 holds three records: two of one key, so
\* of one hash, and one of another key that probes from the same slot.
Wit_C16 ==
    /\ is_finalized
    /\ RecordsOf(5) = 3
    /\ Cardinality(KeysPut) = 2
    /\ Cardinality({ n \in DOMAIN SlotsOf(Cdb, 5) :
                        SlotsOf(Cdb, 5)[n] # << Zero64, 0 >> }) = 3

\* The start of the first slot array of a file with records: the lowest
\* offset of the directory entries with slots.
FirstSlotArray(cdb) ==
    Min({ cdb.header[i].offset : i \in { t \in Tables : cdb.header[t].length > 0 } })

\* C17 (region bounds): in a finalized file every non-empty slot (h, p) has
\* 4096 <= p < start of the first slot array, and the record at p, of lengths
\* (k_len, v_len) as its header says, has p + 8 + k_len + v_len <= start of the
\* first slot array.
Thm_C17 ==
    (is_finalized /\ puts # <<>>) =>
        LET cdb == Cdb
            start == FirstSlotArray(cdb)
        IN  \A i \in { TableOfPut[j] : j \in DOMAIN puts } :
              LET slots == SlotsOf(cdb, i)
              IN  \A n \in DOMAIN slots :
                    slots[n] # << Zero64, 0 >> =>
                        LET p == slots[n][2]
                            t == read_tuple(cdb.reader, p)
                        IN  /\ HEADER_SIZE <= p
                            /\ p < start
                            /\ t.ok
                            /\ p + 8 + t.first + t.second <= start

\* A finalized file of three records whose last record has a key of two bytes
\* and a value of one byte, and whose slot arrays start where the data ends.
Wit_C17 ==
    /\ is_finalized
    /\ Len(puts) = 3
    /\ puts[3] = << <<1, 96>>, <<7>> >>
    /\ FirstSlotArray(Cdb) = current_data_offset
    /\ \E n \in DOMAIN SlotsOf(Cdb, 68) : SlotsOf(Cdb, 68)[n][2] = OffsetOfPut(3)

\* C11 (concurrent reads are independent): however the reads of the get calls
\* and of the iterator on one reader interleave, a get call returns what get
\* returns when run alone, and the iterator yields, pair after pair and to its
\* end, what an iteration run alone yields.
Thm_C11 ==
    (opened.some /\ opened.ok) =>
        LET c == OpenedCdb
            alone == IterAll(c)
        IN  /\ \A g \in Gets :
                  gets[g].phase = "done" => gets[g].result = get(c, gets[g].key)
            /\ iter.on =>
                  /\ Len(iter.items) <= Len(alone.items)
                  /\ iter.items = SubSeq(alone.items, 1, Len(iter.items))
                  /\ iter.last = "None" => (iter.items = alone.items /\ ~alone.err)
                  /\ iter.last = "Err" => (iter.items = alone.items /\ alone.err)

\* On the finalized file of three records one get call has returned a value
\* while another is between its reads and the iterator, one pair yielded, is
\* between the reads of its second record.
Wit_C11 ==
    /\ opened.some /\ opened.ok
    /\ source.len > HEADER_SIZE + 4
    /\ gets[1].phase = "done" /\ gets[1].result.kind = "Some"
    /\ gets[2].phase \in { "tuple", "key", "value" }
    /\ iter.on
    /\ Len(iter.items) = 1
    /\ iter.phase \in { "key", "value" }

\* The little-endian number in the 8 bytes of the file at offset o, for a
\* number below 2^32: its four low bytes weighted, its four high bytes zero.
LittleEndianOf(f, o) ==
    ReadByte(f, o) + (256 * ReadByte(f, o + 1))
        + (65536 * ReadByte(f, o + 2)) + (16777216 * ReadByte(f, o + 3))

LittleEndianAt(o) == LittleEndianOf(source, o)

HighBytesZeroOf(f, o) == \A b \in 4 .. 7 : ReadByte(f, o + b) = 0

HighBytesZero(o) == HighBytesZeroOf(source, o)

\* The first 4096 bytes of each file opened, read as 256 pairs of
\* little-endian numbers: whether each number is below 2^32, and the pair.
DirectoryBytes ==
    [f \in { s \in Sources : s.len >= HEADER_SIZE } |->
        [i \in Tables |->
            [small |-> HighBytesZeroOf(f, 16 * i) /\ HighBytesZeroOf(f, (16 * i) + 8),
             entry |-> [offset |-> LittleEndianOf(f, 16 * i),
                        length |-> LittleEndianOf(f, (16 * i) + 8)]]]]

IterationStops == iter.on ~> (iter.last \in { "None", "Err" })

\* C19 (the iterator is finite): on any reader, over a valid or a corrupt
\* file, next() called again and again returns exhausted (None) after finitely
\* many calls, also after it has returned an error.
Claim_C19 == iter.on ~> (iter.last = "None")

\* The source of a call of read_exact_at as a file.
ExactSource == WriteAt(EmptySink, 0, rx.data)

\* C20 (read_exact_at under short reads and interruptions): when the source
\* holds at least N bytes from offset O, then whatever the lengths of the short
\* reads and the number of Interrupted errors, each read_at is made at the
\* offset O plus the bytes filled so far, the call does not report the end of
\* the data, and when it returns Ok the buffer holds the N bytes at [O, O + N),
\* which is what the one-step read_exact_at of the other parts returns.
Thm_C20 ==
    (rx.on /\ rx.offset + rx.want <= Len(rx.data)) =>
        /\ rx.cur = rx.offset + Len(rx.buf)
        /\ rx.buf = SubSeq(rx.data, rx.offset + 1, rx.offset + Len(rx.buf))
        /\ rx.result # "UnexpectedEof"
        /\ rx.result = "Ok" =>
              /\ rx.buf = [i \in 1 .. rx.want |-> rx.data[rx.offset + i]]
              /\ read_exact_at(ExactSource, rx.want, rx.offset)
                     = [ok |-> TRUE, bytes |-> rx.buf]

\* The one-step read_exact_at fails exactly where the loop can end on the end
\* of the data: when the source holds fewer than N bytes from O.
ExactEof ==
    rx.on =>
        /\ rx.result = "UnexpectedEof" =>
               ~read_exact_at(ExactSource, rx.want, rx.offset).ok
        /\ rx.result = "Ok" => read_exact_at(ExactSource, rx.want, rx.offset).ok

\* A buffer of four bytes was filled from offset 1 of a source of five bytes
\* in three reads, with two Interrupted errors on the way.
Wit_C20 ==
    /\ rx.on
    /\ rx.result = "Ok"
    /\ rx.data = << 1, 2, 3, 4, 5 >>
    /\ rx.offset = 1
    /\ rx.buf = << 2, 3, 4, 5 >>
    /\ rx.interrupts = 2
    /\ rx.reads = 5

\* The bytes the source of the call holds from offset O on.
ExactRemaining == Max(0, Len(rx.data) - rx.offset)

\* C21 (failures of read_exact_at): the call never returns Ok when fewer than
\* N bytes remain at O; it returns UnexpectedEof exactly when read_at has
\* returned 0 before the buffer is full; an error of read_at other than
\* Interrupted is what the call returns, on the read_at where it occurs; once
\* the call has returned no further read_at is made; and the bytes read before
\* the failure are the prefix of the buffer.
Thm_C21 ==
    rx.on =>
        /\ ExactRemaining < rx.want => rx.result # "Ok"
        /\ rx.result = "UnexpectedEof" <=>
               (rx.returned = [kind |-> "Ok", n |-> 0] /\ Len(rx.buf) < rx.want)
        /\ rx.result = "UnexpectedEof" => ExactRemaining < rx.want
        /\ rx.returned.kind \in ErrorKinds <=> rx.result \in ErrorKinds
        /\ rx.returned.kind \in ErrorKinds => rx.result = rx.returned.kind
        /\ rx.result # "-" => ~ENABLED NextExact
        /\ rx.buf = SubSeq(rx.data, rx.offset + 1, rx.offset + Len(rx.buf))

\* read_at failed on the second call, after a first call that read three of
\* the five bytes asked: the call returned that error after two calls of
\* read_at, the three bytes in the buffer.
Wit_C21 ==
    /\ rx.on
    /\ rx.result = "Other"
    /\ rx.want = 4
    /\ rx.buf = << 1, 2, 3 >>
    /\ rx.reads = 2

\* The end of the data was met after a part of the buffer was filled.
Wit_C21Eof ==
    /\ rx.on
    /\ rx.result = "UnexpectedEof"
    /\ rx.buf = << 2, 3 >>
    /\ rx.want = 4

\* The directory entry a get call selects.
TableEntryOf(l) == OpenedCdb.header[LowByte(Hash(l.key))]

\* C22 (probe termination): a get call reads at most `length` slots of the
\* table it selects, the j-th of its reads being of slot (s0 + j - 1) mod
\* length, no slot twice; it is in its loop only while fewer than `length`
\* slots are read; and on a table of length 0 it has returned not-found with
\* no slot read.
Thm_C22 ==
    \A g \in Gets :
        LET l == gets[g]
            length == TableEntryOf(l).length
        IN  l.phase # "idle" =>
                IF length = 0
                THEN l.phase = "done" /\ l.result = GetNone /\ l.slots = <<>>
                ELSE LET s0 == ShrMod(Hash(l.key), length)
                     IN  /\ Len(l.slots) <= length
                         /\ \A j \in 1 .. Len(l.slots) :
                                l.slots[j] = (s0 + j - 1) % length
                         /\ \A j, k \in 1 .. Len(l.slots) :
                                j # k => l.slots[j] # l.slots[k]
                         /\ l.phase = "slot" => Len(l.slots) < length
                         /\ l.phase \in { "tuple", "key", "value" } =>
                                Len(l.slots) = l.i + 1

\* A get call has returned not-found after reading every slot of a table of
\* two slots, none empty and none of its key, the second read wrapping round to
\* slot 0.
Wit_C22 ==
    \E g \in Gets :
        /\ gets[g].phase = "done" /\ gets[g].result = GetNone
        /\ TableEntryOf(gets[g]).length = 2
        /\ gets[g].slots = << 1, 0 >>

\* A get call has returned not-found on a table of length 0, no slot read.
Wit_C22Empty ==
    \E g \in Gets :
        /\ gets[g].phase = "done" /\ gets[g].result = GetNone
        /\ TableEntryOf(gets[g]).length = 0
        /\ gets[g].slots = <<>>

\* What a lookup of key k is to return on the two files of colliding keys: the
\* value put with k, or not-found for a key that was not put.
CollisionExpected(k) ==
    IF source = CollisionBuilt
    THEN IF k = <<2, 195>> THEN GetSome(<<7>>)
         ELSE IF k = <<1, 96>> THEN GetSome(<<>>)
         ELSE GetNone
    ELSE IF k = <<1, 96>> THEN GetSome(<<>>) ELSE GetNone

\* C23 (hash collisions): on a file where the slots of one 64-bit hash are of
\* records of different keys (of the same length and other bytes, or of another
\* length), a record of another key does not end the lookup: each key put is
\* returned its own value, and a key that was not put, of that same hash, is
\* returned not-found, after every slot of the hash up to the empty slot.
Thm_C23 ==
    source \in { CollisionBuilt, CollisionFile } =>
        \A g \in Gets :
            LET l == gets[g]
            IN  /\ l.phase = "done" => l.result = CollisionExpected(l.key)
                /\ (l.phase = "done" /\ Hash(l.key) = Hash(<<1, 96>>)
                        /\ l.result = GetNone) => l.passed = 2

\* On the file with a record of another length under the hash, the key put
\* second was returned its value by a get call that passed the record of the
\* first, and the key not put was returned not-found by a get call that passed
\* both records.
Wit_C23 ==
    /\ source = CollisionFile
    /\ gets[1].phase = "done" /\ gets[1].key = <<1, 96>>
    /\ gets[1].result = GetSome(<<>>) /\ gets[1].passed = 1
    /\ gets[2].phase = "done" /\ gets[2].key = <<2, 195>>
    /\ gets[2].result = GetNone /\ gets[2].passed = 2

\* On the file built by CdbHash, each of the two keys of the same hash and
\* length was returned its own value.
Wit_C23Same ==
    /\ source = CollisionBuilt
    /\ gets[1].phase = "done" /\ gets[1].key = <<1, 96>>
    /\ gets[1].result = GetSome(<<>>) /\ gets[1].passed = 1
    /\ gets[2].phase = "done" /\ gets[2].key = <<2, 195>>
    /\ gets[2].result = GetSome(<<7>>) /\ gets[2].passed = 0

\* The key of the record at offset p, read as get_value_at reads it: the
\* lengths in the 8 bytes at p, the key after them.
KeyAt(cdb, p) ==
    read_exact_at(cdb.reader, read_tuple(cdb.reader, p).first, p + 8).bytes

\* C24 (subtable consistency): in a finalized file every non-empty slot (h, p)
\* of the slot array of subtable i has h & 0xff = i, and the key of the record
\* at p has hash h.
Thm_C24 ==
    is_finalized =>
        LET cdb == Cdb
        IN  \A i \in Tables :
              LET slots == SlotsOf(cdb, i)
              IN  \A n \in DOMAIN slots :
                    slots[n] # << Zero64, 0 >> =>
                        /\ LowByte(slots[n][1]) = i
                        /\ read_tuple(cdb.reader, slots[n][2]).ok
                        /\ Hash(KeyAt(cdb, slots[n][2])) = slots[n][1]

\* A finalized file with slots in two subtables: those of <<>> and <<160>> in
\* subtable 5, that of <<1, 96>> in subtable 68.
Wit_C24 ==
    /\ is_finalized
    /\ KeysPut = { <<>>, <<160>>, <<1, 96>> }
    /\ \E n \in DOMAIN SlotsOf(Cdb, 68) :
          /\ SlotsOf(Cdb, 68)[n][1] = Hash(<<1, 96>>)
          /\ KeyAt(Cdb, SlotsOf(Cdb, 68)[n][2]) = <<1, 96>>
    /\ \E n \in DOMAIN SlotsOf(Cdb, 5) :
          KeyAt(Cdb, SlotsOf(Cdb, 5)[n][2]) = <<160>>

\* The subtables of a reader that have slots, and the bytes of their slot
\* arrays: from the offset of the directory entry, 16 bytes per slot.
WithSlots(cdb) == { i \in Tables : cdb.header[i].length > 0 }
SlotArrayEnd(cdb, i) == cdb.header[i].offset + (16 * cdb.header[i].length)

\* C25 (slot arrays are apart): in a finalized file the slot arrays of two
\* subtables have no byte in common, and every slot array starts at or after
\* the builder's data cursor, so after the directory and after the last byte of
\* every record, and ends within the file.
Thm_C25 ==
    is_finalized =>
        LET cdb == Cdb
        IN  /\ \A i, j \in WithSlots(cdb) :
                  i # j => \/ SlotArrayEnd(cdb, i) <= cdb.header[j].offset
                           \/ SlotArrayEnd(cdb, j) <= cdb.header[i].offset
            /\ \A i \in WithSlots(cdb) :
                  /\ cdb.header[i].offset >= current_data_offset
                  /\ cdb.header[i].offset >= HEADER_SIZE
                  /\ SlotArrayEnd(cdb, i) <= writer.len
                  /\ \A j \in DOMAIN puts :
                        OffsetOfPut(j) + 8 + Len(puts[j][1]) + Len(puts[j][2])
                            <= cdb.header[i].offset

\* A finalized file of three records with the slot arrays of two subtables,
\* the first starting at the data cursor and the second where the first ends.
Wit_C25 ==
    /\ is_finalized
    /\ Len(puts) = 3
    /\ WithSlots(Cdb) = { 5, 68 }
    /\ Cdb.header[5].offset = current_data_offset
    /\ Cdb.header[68].offset = SlotArrayEnd(Cdb, 5)

\* The data cursor of the builder when it had been fed the put sequence ps.
CursorAfter(ps) ==
    BuildPuts([writer |-> WriterNew(EmptySink),
               entries_by_table |-> [i \in Tables |-> <<>>],
               current_data_offset |-> HEADER_SIZE], ps).current_data_offset

IterEndIsCursor ==
    is_finalized => CdbIteratorNew(Cdb).end_pos = current_data_offset

Wit_C26Low ==
    /\ iter.on
    /\ source = PatternHeader
    /\ iter.end_pos = 4096

\* The header of the record at the cursor of the iterator, and the states in
\* which next() has it to go by.
IterHeader == read_tuple(opened.reader, iter.current_pos)
IterAtHeader ==
    /\ iter.on /\ iter.phase = "tuple"
    /\ iter.current_pos < iter.end_pos
    /\ IterHeader.ok

\* The rule of next() for a record whose header takes hdr bytes, on the steps
\* of the iterator: with the lengths (k_len, v_len) read at the cursor, a
\* record that ends after the end bound makes next() return an error, no pair
\* and the cursor where it was; any other makes it go on to read; and a pair it
\* returns has k_len key bytes and v_len value bytes, the cursor moving on by
\* hdr + k_len + v_len.
IterRecordRule(hdr) ==
    LET k_len == IterHeader.first
        v_len == IterHeader.second
        yields == Len(iter'.items) = Len(iter.items) + 1
    IN  /\ (IterAtHeader /\ iter' # iter) =>
              IF iter.current_pos + hdr + k_len + v_len > iter.end_pos
              THEN /\ iter'.last = "Err"
                   /\ iter'.items = iter.items
                   /\ iter'.current_pos = iter.current_pos
              ELSE iter'.phase \in { "key", "value" } \/ yields
        /\ (iter.on /\ yields) =>
              LET pair == iter'.items[Len(iter'.items)]
              IN  /\ Len(pair[1]) = k_len
                  /\ Len(pair[2]) = v_len
                  /\ iter'.current_pos = iter.current_pos + hdr + k_len + v_len

\* C27 (corruption check of the iterator): next() returns an error and no
\* bytes when cursor + 8 + k_len + v_len > end, and otherwise reads k_len key
\* bytes and v_len value bytes and advances the cursor by 8 + k_len + v_len.
Claim_C27 == [][IterRecordRule(8)]_vars

\* What next() does: the same with 16 in the place of 8.
IterRecordRule16 == [][IterRecordRule(16)]_vars

\* The reads the calls in flight are about to make are all at or after the
\* end of the directory.
ReadsAbove ==
    /\ LET cdb == OpenedCdb
       IN  \A g \in Gets :
               gets[g].phase \notin { "idle", "done" } =>
                   GetWanted(cdb, gets[g]).offset >= HEADER_SIZE
    /\ (iter.on /\ iter.current_pos < iter.end_pos) =>
          IterWanted(iter).offset >= HEADER_SIZE

\* The directory and the slots point at or after the end of the directory:
\* every entry with slots has an offset >= 4096, and every non-empty slot that
\* the file holds has a record offset >= 4096.
LaidOut(cdb) ==
    \A i \in WithSlots(cdb) :
        /\ cdb.header[i].offset >= HEADER_SIZE
        /\ \A n \in 0 .. cdb.header[i].length - 1 :
              LET r == read_exact_at(cdb.reader, 16, cdb.header[i].offset + (16 * n))
              IN  (r.ok /\ r.bytes # Repeat(0, 16)) =>
                      U64ToNat(FromLeBytes64(SubSeq(r.bytes, 9, 16))) >= HEADER_SIZE

\* Cdb::new on each file opened.
OpenedSources == [f \in Sources |-> Opened(f)]

\* The reader is as Cdb::new made it, and every get call that has returned has
\* returned what get returns on it, the calls that failed included.
ReaderUnchanged ==
    /\ opened = OpenedSources[source]
    /\ LET cdb == OpenedCdb
       IN  \A g \in Gets :
               gets[g].phase = "done" => gets[g].result = get(cdb, gets[g].key)

CdbMmap == CdbOpenMmap(writer)

\* C29 (the memory map path is the positional path): on a finalized file the
\* reader opened with the map has the directory of the reader that reads by
\* position, and get on it returns, for every key, put or not, what get on the
\* other returns: the same value or not-found.
Thm_C29 ==
    is_finalized =>
        LET cdb == Cdb
            mapped == CdbMmap
        IN  /\ mapped.ok /\ cdb.ok
            /\ mapped.header = cdb.header
            /\ \A k \in GetKeys :
                  /\ get_mmap(mapped, k) = get(cdb, k)
                  /\ get_mmap(mapped, k).kind \in { "Some", "None" }

\* On a finalized file of three records the reader with the map returns the
\* value of one byte of a key of two bytes, the empty value of another key, and
\* not-found for a key of the hash of the first that was not put.
Wit_C29 ==
    /\ is_finalized
    /\ Len(puts) = 3
    /\ get_mmap(CdbMmap, <<1, 96>>) = GetSome(<<7>>)
    /\ get_mmap(CdbMmap, <<160>>) = GetSome(<<>>)
    /\ get_mmap(CdbMmap, <<2, 195>>) = GetNone

\* C30 (the hash state is cumulative): whatever the slices the bytes were
\* written in, the state of the hasher is the state of a new hasher after one
\* write of all the bytes; and the bytes a write_u64(i) has written are the
\* eight bytes of i, least significant first.
Thm_C30 ==
    hasher.on =>
        /\ hasher.state = HashWrite(U64FromNat(CDB_HASH_START_VALUE), hasher.key)
        /\ hasher.last.op = "write_u64" =>
              LET n == Len(hasher.key)
                  b == SubSeq(hasher.key, n - 7, n)
              IN  /\ n >= 8
                  /\ \A j \in 1 .. 4 :
                        b[(2 * j) - 1] + (256 * b[2 * j]) = hasher.last.i[j]

\* After the writes of two bytes, of one byte and of 0x123456789abcdef0 with
\* write_u64, the state is that of one write of the eleven bytes.
Wit_C30 ==
    /\ hasher.on
    /\ hasher.last.op = "write_u64"
    /\ hasher.key = << 97, 255, 255, 240, 222, 188, 154, 120, 86, 52, 18 >>
    /\ hasher.state = Hash(<< 97, 255, 255, 240, 222, 188, 154, 120, 86, 52, 18 >>)

\* ---------------------------------------------------------------------------
\* The probe chains of a finalized file.

\* The slots a reader visits from slot start up to slot j of an array of S
\* slots, wrapping: start, start + 1, ..., j (slot numbers from 0).
ProbePath(start, j, S) ==
    { (start + d) % S : d \in 0 .. (((j + S) - start) % S) }

\* Whether Cdb::get takes the slot for the end of the chain.
SlotIsEmpty(slot) == slot[1] = Zero64 /\ slot[2] = 0

RECURSIVE ProbeTurns(_, _, _)
ProbeTurns(slots_data, slot_idx, turn) ==
    IF turn > Len(slots_data) THEN 0
    ELSE IF slots_data[slot_idx + 1][2] = 0 THEN turn
    ELSE ProbeTurns(slots_data, (slot_idx + 1) % Len(slots_data), turn + 1)

\* slots_data of a subtable after the first k of its entries were placed.
PlacedAfter(entries, k) ==
    PlaceAll(Repeat(<< Zero64, 0 >>, 2 * Len(entries)), SubSeq(entries, 1, k))

\* The slots of an array that hold something.
Taken(slots_data) == { s \in DOMAIN slots_data : slots_data[s] # << Zero64, 0 >> }

\* C32 (the placement loop ends): for every subtable of n entries of the
\* builder, while the entries are placed into its 2n slots, the probe for entry
\* k finds a slot of offset 0 within k turns, so within 2n, the entry is written
\* to that slot and to no other, and the k entries placed so far are each in a
\* slot: none was overwritten.
Thm_C32 ==
    \A i \in DOMAIN entries_by_table :
        LET entries == entries_by_table[i]
            n == Len(entries)
        IN  \A k \in 1 .. n :
              LET was == PlacedAfter(entries, k - 1)
                  now == PlacedAfter(entries, k)
                  start == ShrMod(entries[k].hash_val, 2 * n)
                  turns == ProbeTurns(was, start, 1)
                  slot == (start + turns - 1) % (2 * n)
              IN  /\ turns \in 1 .. (2 * n)
                  /\ turns <= k
                  /\ ProbeEmpty(was, start) = slot
                  /\ was[slot + 1] = << Zero64, 0 >>
                  /\ now = [was EXCEPT ![slot + 1] =
                                << entries[k].hash_val, entries[k].offset >>]
                  /\ Cardinality(Taken(now)) = k
                  /\ \A m \in 1 .. k :
                        \E s \in DOMAIN now :
                            now[s] = << entries[m].hash_val, entries[m].offset >>

\* finalize has written the slot array of a subtable of three entries of the
\* same start slot: the third was placed at its third turn, and the array in
\* the file holds the three.
Wit_C32 ==
    /\ is_finalized
    /\ 5 \in DOMAIN entries_by_table
    /\ Len(entries_by_table[5]) = 3
    /\ LET entries == entries_by_table[5]
       IN  /\ ProbeTurns(PlacedAfter(entries, 2),
                         ShrMod(entries[3].hash_val, 6), 1) = 3
           /\ [s \in 1 .. 6 |-> SlotsOf(Cdb, 5)[s]] = PlacedAfter(entries, 3)

\* ---------------------------------------------------------------------------
\* The builder on a sink whose calls may fail: a seek, a write_all or a flush
\* returns an I/O error, which the ? of the caller hands up at once.  A
\* write_all that fails has written some of its bytes, or none.

\* The numbers of bytes after which the writes of one call stop.
FailAfter == { 0, 10, 88 }

\* The records put to a sink that may fail: one of 8 bytes in subtable 5, one
\* of 11 bytes in subtable 68.
FailPuts == { << <<>>, <<>> >>, << <<1, 96>>, <<7>> >> }

\* Faulty put: the entry is recorded and the cursor advanced before the
\* writes, so that a put that fails has done both.
PutStepFailsEntryFirst(b, key, value, n) ==
    LET hash_val == Hash(key)
        table_idx == LowByte(hash_val)
    IN  [writer |-> WriteAt(b.writer, b.current_data_offset,
                            SubSeq(PutBytes(key, value), 1, n)),
         entries_by_table |->
             [b.entries_by_table EXCEPT ![table_idx] =
                 Append(@, [hash_val |-> hash_val, offset |-> b.current_data_offset])],
         current_data_offset |-> b.current_data_offset + PutAdvance(key, value)]

\* What a put that fails does to an unfinalized builder: of the bytes of the
\* header, the key and the value, in this order, the first n are written at
\* the cursor (none when the seek fails); the ? returns before the entry is
\* pushed and the cursor advanced.
PutStepFails(b, key, value, n) ==
    [writer |-> WriteAt(b.writer, b.current_data_offset,
                        SubSeq(PutBytes(key, value), 1, n)),
     entries_by_table |-> b.entries_by_table,
     current_data_offset |-> b.current_data_offset]

\* CdbWriter::put, a call of the sink failing.
PutFails(key, value, n) ==
    /\ alive
    /\ pc = "idle"
    /\ ~is_finalized
    /\ failures < MaxFailures
    /\ n < Len(PutBytes(key, value))
    /\ LET b == PutStepFails([writer |-> writer,
                              entries_by_table |-> Dense(entries_by_table, <<>>),
                              current_data_offset |-> current_data_offset],
                             key, value, n)
       IN  /\ writer' = b.writer
           /\ entries_by_table' = Sparse(b.entries_by_table, <<>>)
           /\ current_data_offset' = b.current_data_offset
    /\ ret' = [op |-> "put", res |-> "Io"]
    /\ failures' = failures + 1
    /\ UNCHANGED << is_finalized, alive, inner, frozen, puts, finalize_calls, pc, fin >>
    /\ UNCHANGED notSink

\* The elements of a set of numbers in increasing order.
RECURSIVE Ascending(_)
Ascending(S) ==
    IF S = {} THEN <<>> ELSE << Min(S) >> \o Ascending(S \ { Min(S) })

\* The writes of write_footer_and_header in their order, each a position and
\* the bytes written from it on: the slot array of each non-empty subtable,
\* then the 4096 bytes of the header.
FooterWrites(f, entries, data_offset) ==
    LET st == FooterLoop([sink |-> f, pos |-> data_offset,
                          hdr |-> [i \in Tables |-> DefaultTableEntry]],
                         entries, 0, NUM_TABLES)
        tables == Ascending({ i \in Tables : entries[i] # <<>> })
    IN  [w \in 1 .. Len(tables) |->
            [pos |-> st.hdr[tables[w]].offset,
             bytes |-> SlotBytes(SlotsData(entries[tables[w]]))]]
        \o << [pos |-> 0, bytes |-> HeaderBytes(st.hdr)] >>

\* The sink after the first k of these writes.
RECURSIVE WritesDone(_, _, _)
WritesDone(f, writes, k) ==
    IF k = 0 THEN f
    ELSE WriteAt(WritesDone(f, writes, k - 1), writes[k].pos, writes[k].bytes)

\* CdbWriter::finalize, a call of the sink failing within
\* write_footer_and_header, in its write number w after n bytes of it (none
\* when the flush before the loop or a seek fails): is_finalized is not
\* reached.
FinalizeFails(w, n) ==
    /\ alive
    /\ pc = "idle"
    /\ ~is_finalized
    /\ failures < MaxFailures
    /\ w <= Cardinality(DOMAIN entries_by_table) + 1
    /\ LET writes == FooterWrites(writer, Dense(entries_by_table, <<>>),
                                  current_data_offset)
       IN  /\ n < Len(writes[w].bytes)
           /\ writer' = WriteAt(WritesDone(writer, writes, w - 1), writes[w].pos,
                                SubSeq(writes[w].bytes, 1, n))
    /\ ret' = [op |-> "finalize", res |-> "Io"]
    /\ finalize_calls' = IF finalize_calls = 0 THEN 1 ELSE 2
    /\ failures' = failures + 1
    /\ UNCHANGED << entries_by_table, is_finalized, current_data_offset, alive,
                    inner, frozen, puts, pc, fin >>
    /\ UNCHANGED notSink

\* CdbWriter::finalize, the flush after write_footer_and_header failing:
\* write_footer_and_header has returned Ok, having set is_finalized unless it
\* was set.
FinalizeFlushFails ==
    /\ alive
    /\ pc = "idle"
    /\ failures < MaxFailures
    /\ IF is_finalized
       THEN UNCHANGED << writer, is_finalized >>
       ELSE /\ writer' = FooterAndHeader(writer, Dense(entries_by_table, <<>>),
                                           current_data_offset)
            /\ is_finalized' = TRUE
    /\ ret' = [op |-> "finalize", res |-> "Io"]
    /\ finalize_calls' = IF finalize_calls = 0 THEN 1 ELSE 2
    /\ failures' = failures + 1
    /\ UNCHANGED << entries_by_table, current_data_offset, alive, inner, frozen,
                    puts, pc, fin >>
    /\ UNCHANGED notSink

\* CdbWriter::into_inner on a finalized builder, its flush failing: the
\* builder is consumed and the sink is not returned.
IntoInnerFails ==
    /\ alive
    /\ pc = "idle"
    /\ is_finalized
    /\ failures < MaxFailures
    /\ alive' = FALSE
    /\ inner' = NoSink
    /\ ret' = [op |-> "into_inner", res |-> "Io"]
    /\ failures' = failures + 1
    /\ UNCHANGED << writer, entries_by_table, is_finalized, current_data_offset,
                    frozen, puts, finalize_calls, pc, fin >>
    /\ UNCHANGED notSink

NextFail ==
    \/ \E p \in FailPuts : Put(p[1], p[2])
    \/ \E p \in FailPuts, n \in FailAfter : PutFails(p[1], p[2], n)
    \/ Finalize
    \/ \E w \in 1 .. (MaxPuts + 1), n \in FailAfter : FinalizeFails(w, n)
    \/ FinalizeFlushFails
    \/ IntoInner
    \/ IntoInnerFails

SpecFail == Init /\ [][NextFail]_vars

\* A step is a put that met an I/O error.
PutFailed == ret'.op = "put" /\ ret'.res = "Io" /\ failures' = failures + 1

\* The number of entries over the 256 lists.
RECURSIVE EntryCount(_)
EntryCount(tables) ==
    IF tables = {} THEN 0
    ELSE LET i == Min(tables)
         IN  Len(entries_by_table[i]) + EntryCount(tables \ { i })

\* Every record put with success is in the sink at the offset that the
\* records put with success before it give, its entry is in the list of its
\* subtable, and the cursor is after the last of them.
RecordsInPlace ==
    /\ \A j \in DOMAIN puts :
          LET o == OffsetOfPut(j)
              t == read_tuple(writer, o)
              entries == Dense(entries_by_table, <<>>)[LowByte(Hash(puts[j][1]))]
          IN  /\ t.ok /\ t.first = Len(puts[j][1]) /\ t.second = Len(puts[j][2])
              /\ read_exact_at(writer, t.first, o + 8).bytes = puts[j][1]
              /\ read_exact_at(writer, t.second, o + 8 + t.first).bytes = puts[j][2]
              /\ \E e \in DOMAIN entries :
                    entries[e] = [hash_val |-> Hash(puts[j][1]), offset |-> o]
    /\ current_data_offset = OffsetOfPut(Len(puts) + 1)
    /\ EntryCount(DOMAIN entries_by_table) = Len(puts)

\* C33 (a put that fails): a put that returns an I/O error leaves
\* is_finalized, the entry lists and the data cursor as they were, whatever it
\* has written; so no entry is recorded for it and the records put with
\* success, before and after it, follow one another: the next put that
\* succeeds writes its record at the offset of the one that failed.
Thm_C33 ==
    /\ [][PutFailed => UNCHANGED << is_finalized, entries_by_table,
                                    current_data_offset, puts >>]_vars
    /\ []RecordsInPlace

\* A put of a key of two bytes failed at the write of its value, and the put
\* of an empty record after it has succeeded: its header is at 4096, where
\* that of the other was, the two bytes of the key of the other are still
\* after it, there is one entry and the cursor is one record after 4096.
Wit_C33 ==
    /\ failures = 1
    /\ ret = [op |-> "put", res |-> "Ok"]
    /\ puts = << << <<>>, <<>> >> >>
    /\ read_tuple(writer, HEADER_SIZE) = [ok |-> TRUE, first |-> 0, second |-> 0]
    /\ ReadByte(writer, HEADER_SIZE + 8) = 1
    /\ ReadByte(writer, HEADER_SIZE + 9) = 96
    /\ entries_by_table = (5 :> << [hash_val |-> Hash(<<>>), offset |-> HEADER_SIZE] >>)
    /\ current_data_offset = HEADER_SIZE + 16

\* A step is a finalize that met an I/O error.
FinalizeFailed == ret'.op = "finalize" /\ ret'.res = "Io" /\ failures' = failures + 1

\* The step leaves the entry lists and the cursor as they were, and the sink
\* such that a finalize that succeeds next writes the file it would have
\* written in place of the step.
RetryIsTheSame ==
    /\ UNCHANGED << entries_by_table, current_data_offset >>
    /\ FooterAndHeader(writer', Dense(entries_by_table, <<>>), current_data_offset)
           = FooterAndHeader(writer, Dense(entries_by_table, <<>>), current_data_offset)

\* C34 as claimed (a finalize that fails): a finalize of an unfinalized
\* builder that returns an I/O error leaves is_finalized false and the entry
\* lists and the cursor unchanged, and a finalize that succeeds after it, no
\* put in between, leaves the bytes of a build without the failure.
Claim_C34 ==
    [][(FinalizeFailed /\ ~is_finalized) => (~is_finalized' /\ RetryIsTheSame)]_vars

\* The same of the failures within write_footer_and_header, which are those
\* that leave is_finalized false.
FinalizeRetryRule ==
    [][(FinalizeFailed /\ ~is_finalized') => RetryIsTheSame]_vars

\* The failure that leaves is_finalized true: finalize has returned an I/O
\* error, and the builder is finalized.
FailedAndFinalized ==
    ret = [op |-> "finalize", res |-> "Io"] /\ is_finalized /\ alive

\* ---------------------------------------------------------------------------
\* The bookkeeping of the builder.

\* The bytes a record takes in the sink: those put writes for it.
OnDiskSize(key, value) == Len(PutBytes(key, value))

\* The sum of the sizes of the first j records put, by OnDiskSize or by the
\* advance of the cursor.
RECURSIVE SumOnDisk(_)
SumOnDisk(j) ==
    IF j = 0 THEN 0 ELSE SumOnDisk(j - 1) + OnDiskSize(puts[j][1], puts[j][2])

RECURSIVE SumAdvance(_)
SumAdvance(j) ==
    IF j = 0 THEN 0 ELSE SumAdvance(j - 1) + PutAdvance(puts[j][1], puts[j][2])

\* The entry that put number j pushed: in the list of the subtable of its
\* hash, after those of the puts of that subtable before it.
EntryOfPut(j) ==
    LET t == LowByte(Hash(puts[j][1]))
        e == Cardinality({ m \in 1 .. j : LowByte(Hash(puts[m][1])) = t })
    IN  Dense(entries_by_table, <<>>)[t][e]

\* As many entries as puts that succeeded; the entry of each has the hash of
\* its key and the offset at which the sink holds its record; the offsets
\* grow with the order of the puts.
EntriesFollowPuts ==
    /\ EntryCount(DOMAIN entries_by_table) = Len(puts)
    /\ \A j \in DOMAIN puts :
          LET entry == EntryOfPut(j)
              t == read_tuple(writer, entry.offset)
          IN  /\ entry.hash_val = Hash(puts[j][1])
              /\ t.ok /\ t.first = Len(puts[j][1]) /\ t.second = Len(puts[j][2])
              /\ read_exact_at(writer, t.first, entry.offset + 8).bytes = puts[j][1]
              /\ read_exact_at(writer, t.second, entry.offset + 8 + t.first).bytes
                     = puts[j][2]
              /\ j > 1 => EntryOfPut(j - 1).offset < entry.offset
              /\ j = 1 => entry.offset = HEADER_SIZE

\* C35 as claimed (bookkeeping of an unfinalized builder): the data cursor is
\* 4096 plus the sizes in the sink of the records put with success, there are
\* as many entries as such puts, the offset of each entry is where its record
\* starts, and the offsets grow with the order of the puts.
Claim_C35 ==
    ~is_finalized =>
        /\ current_data_offset = HEADER_SIZE + SumOnDisk(Len(puts))
        /\ EntriesFollowPuts

\* The same with the cursor as put advances it: 16 bytes and the key and the
\* value for each record.
BookkeepingAsCoded ==
    ~is_finalized =>
        /\ current_data_offset = HEADER_SIZE + SumAdvance(Len(puts))
        /\ EntriesFollowPuts

\* ---------------------------------------------------------------------------
\* The builder and the reader under hasher types of their own: CdbWriter<W, H>
\* and Cdb<R, H> take any H: Hasher + Default, and the H of the reader of a
\* file need not be the H of its builder.

\* CdbHash; CustomTestHasher (tests/rw_test.rs); CollisionHasher (the tests of
\* cdb.rs); and a hasher whose write does nothing and whose finish is 0.
Hashers == { "CdbHash", "CustomTestHasher", "CollisionHasher", "ZeroHasher" }

\* u64::rotate_left(5)
RotateLeft5(h) == [Shl5(h) EXCEPT ![1] = @ + (h[4] \div 2048)]

\* CustomTestHasher::write: per byte, state.rotate_left(5) + byte + 0x67,
\* wrapping.
RECURSIVE CustomWrite(_, _)
CustomWrite(state, bytes) ==
    IF bytes = <<>> THEN state
    ELSE CustomWrite(WrappingAdd(WrappingAdd(RotateLeft5(state),
                                             << Head(bytes), 0, 0, 0 >>),
                                 << 103, 0, 0, 0 >>),
                     Tail(bytes))

\* CollisionHasher::write: up to 8 bytes are the state, little-endian and
\* padded with zeros; more than 8 give 0xDEADBEEFCAFEFACE.
CollisionWrite(bytes) ==
    IF Len(bytes) <= 8
    THEN FromLeBytes64([b \in 1 .. 8 |-> IF b <= Len(bytes) THEN bytes[b] ELSE 0])
    ELSE << 64206, 51966, 48879, 57005 >>

\* CollisionHasher::finish: the states of "key_A   " and "key_C   " give
\* 0x0102030405060708, that of "key_B   " 0x1112131415161718, any other state
\* itself.
CollisionFinish(state) ==
    IF state \in { FromLeBytes64(<< 107, 101, 121, 95, 65, 32, 32, 32 >>),
                   FromLeBytes64(<< 107, 101, 121, 95, 67, 32, 32, 32 >>) }
    THEN << 1800, 1286, 772, 258 >>
    ELSE IF state = FromLeBytes64(<< 107, 101, 121, 95, 66, 32, 32, 32 >>)
    THEN << 5912, 5398, 4884, 4370 >>
    ELSE state

\* H::default(), write(key), finish()
HashOf(H, key) ==
    CASE H = "CdbHash" -> Hash(key)
      [] H = "CustomTestHasher" -> CustomWrite(U64FromNat(12345), key)
      [] H = "CollisionHasher" -> CollisionFinish(CollisionWrite(key))
      [] H = "ZeroHasher" -> Zero64

\* put of CdbWriter<W, H> on an unfinalized builder.
PutStepOf(H, b, key, value) ==
    LET hash_val == HashOf(H, key)
        table_idx == LowByte(hash_val)
    IN  [writer |-> WriteAt(b.writer, b.current_data_offset, PutBytes(key, value)),
         entries_by_table |->
             [b.entries_by_table EXCEPT ![table_idx] =
                 Append(@, [hash_val |-> hash_val, offset |-> b.current_data_offset])],
         current_data_offset |-> b.current_data_offset + PutAdvance(key, value)]

\* Faulty get of Cdb<R, H>: the first slot of the hash of the key, in the
\* order of the slot array, is taken for the record of the key, whose value is
\* returned without a look at its key.
getOfHashOnly(H, cdb, key) ==
    LET hash_val == HashOf(H, key)
        slots == SlotsOf(cdb, LowByte(hash_val))
        hits == { n \in DOMAIN slots : slots[n][1] = hash_val /\ slots[n][2] # 0 }
    IN  IF hits = {} THEN GetNone
        ELSE LET data_offset == slots[Min(hits)][2]
                 t == read_tuple(cdb.reader, data_offset)
             IN  GetSome(read_exact_at(cdb.reader, t.second,
                                       data_offset + 8 + t.first).bytes)

\* get of Cdb<R, H>
getOf(H, cdb, key) ==
    LET hash_val == HashOf(H, key)
        table_idx == LowByte(hash_val)
        table_entry == cdb.header[table_idx]
    IN  IF table_entry.length = 0 THEN GetNone
        ELSE GetProbe(cdb, key, hash_val, table_entry, 0)

\* The records put, each key with a value of its own, and the keys looked up.
TypedPuts == { << <<>>, <<7>> >>, << <<0>>, <<>> >>, << <<5>>, <<8>> >>,
               << <<5, 21>>, <<9, 9>> >> }
TypedKeys == { <<>>, <<0>>, <<5>>, <<5, 21>>, <<0, 0>> }

InitTyped ==
    /\ BuilderNew
    /\ hasher = NoHasher
    /\ ReaderParked
    /\ rx = NoExact
    /\ \E H \in Hashers : hx = [NoHx EXCEPT !.H = H]

\* CdbWriter::<W, H>::put on an unfinalized builder.
TypedPut(key, value) ==
    /\ alive
    /\ pc = "idle"
    /\ ~is_finalized
    /\ Len(puts) < MaxPuts
    /\ LET b == PutStepOf(hx.H, [writer |-> writer,
                                 entries_by_table |-> Dense(entries_by_table, <<>>),
                                 current_data_offset |-> current_data_offset],
                          key, value)
       IN  /\ writer' = b.writer
           /\ entries_by_table' = Sparse(b.entries_by_table, <<>>)
           /\ current_data_offset' = b.current_data_offset
    /\ puts' = Append(puts, << key, value >>)
    /\ ret' = [op |-> "put", res |-> "Ok"]
    /\ UNCHANGED << is_finalized, alive, inner, frozen, finalize_calls, pc, fin >>
    /\ UNCHANGED << notTyped, hx >>

\* Cdb::<R, H2>::get on the reader of the file, H2 any hasher type.
TypedGet(H2, key) ==
    /\ frozen.some /\ frozen.ok
    /\ hx' = [hx EXCEPT !.on = TRUE, !.H2 = H2, !.key = key,
                        !.result = getOf(H2, FrozenCdb, key)]
    /\ UNCHANGED << builderVars, notTyped >>

NextTyped ==
    \/ \E p \in TypedPuts : TypedPut(p[1], p[2])
    \/ Freeze
    \/ \E H2 \in Hashers, key \in TypedKeys : TypedGet(H2, key)

SpecTyped == InitTyped /\ [][NextTyped]_vars

\* C36 (lookup soundness under any hasher): on the file of a builder of
\* hasher type H, a get of a reader of hasher type H2, equal to H or not,
\* returns not-found or a value that was put under the key looked up, never
\* an error and never the value of a record of another key; and when H2 is H
\* it returns the value first put under the key, or not-found for a key that
\* was not put.
Thm_C36 ==
    hx.on =>
        /\ hx.result.kind \in { "Some", "None" }
        /\ hx.result.kind = "Some" =>
              \E j \in DOMAIN puts : puts[j] = << hx.key, hx.result.value >>
        /\ hx.H2 = hx.H =>
              hx.result = IF hx.key \in KeysPut THEN GetSome(FirstValue(hx.key))
                          ELSE GetNone

\* On a file built with the hasher whose hash is 0 for every key, a reader
\* with CollisionHasher, under which the key <<0>> has hash 0 too, has passed
\* the record of <<5>>, of the same hash and length, and returned the value
\* put under <<0>>.
Wit_C36 ==
    /\ hx.on
    /\ hx.H = "ZeroHasher" /\ hx.H2 = "CollisionHasher"
    /\ puts = << << <<5>>, <<8>> >>, << <<0>>, <<>> >> >>
    /\ hx.key = <<0>>
    /\ HashOf(hx.H2, hx.key) = HashOf(hx.H, <<5>>)
    /\ hx.result = GetSome(<<>>)

\* On a file built with CdbHash that holds the empty key, a reader with
\* CollisionHasher looks up <<5, 21>>, whose hash with it is the hash of the
\* empty key with CdbHash: the slot matches, the record is of another key, and
\* the get returns not-found.
Wit_C36Mismatch ==
    /\ hx.on
    /\ hx.H = "CdbHash" /\ hx.H2 = "CollisionHasher"
    /\ puts = << << <<>>, <<7>> >> >>
    /\ hx.key = <<5, 21>>
    /\ HashOf(hx.H2, hx.key) = HashOf(hx.H, <<>>)
    /\ hx.result = GetNone

\* ---------------------------------------------------------------------------
\* The writer handle of the C binding (c/src/lib.rs): a CdbWriterFile holds
\* an Option<CdbWriter<File, CdbHash>>.  The builder variables are those of
\* the CdbWriter it holds, and alive is whether it holds one (Some).  The sink
\* is a File, whose flush does nothing and does not fail; its seeks and writes
\* may fail.

\* cdb_writer_put, no call of the sink failing: without a writer the handle
\* refuses; otherwise the result of put, CDB_ERROR_IO for any error.
cdb_writer_put(key, value) ==
    /\ pc = "idle"
    /\ IF ~alive
       THEN /\ ret' = [op |-> "cdb_writer_put", res |-> "CDB_ERROR_OPERATION_FAILED"]
            /\ UNCHANGED << writer, entries_by_table, current_data_offset, puts >>
       ELSE IF is_finalized
       THEN /\ ret' = [op |-> "cdb_writer_put", res |-> "CDB_ERROR_IO"]
            /\ UNCHANGED << writer, entries_by_table, current_data_offset, puts >>
       ELSE /\ Len(puts) < MaxPuts
            /\ LET b == PutStep([writer |-> writer,
                                 entries_by_table |-> Dense(entries_by_table, <<>>),
                                 current_data_offset |-> current_data_offset],
                                key, value)
               IN  /\ writer' = b.writer
                   /\ entries_by_table' = Sparse(b.entries_by_table, <<>>)
                   /\ current_data_offset' = b.current_data_offset
            /\ puts' = Append(puts, << key, value >>)
            /\ ret' = [op |-> "cdb_writer_put", res |-> "CDB_SUCCESS"]
    /\ UNCHANGED << is_finalized, alive, inner, frozen, finalize_calls, pc, fin >>
    /\ UNCHANGED notBuilder

\* cdb_writer_put on a handle with a writer, a seek or a write of put failing
\* after n bytes of the record.
cdb_writer_put_fails(key, value, n) ==
    /\ pc = "idle"
    /\ alive
    /\ ~is_finalized
    /\ failures < MaxFailures
    /\ n < Len(PutBytes(key, value))
    /\ LET b == PutStepFails([writer |-> writer,
                              entries_by_table |-> Dense(entries_by_table, <<>>),
                              current_data_offset |-> current_data_offset],
                             key, value, n)
       IN  /\ writer' = b.writer
           /\ entries_by_table' = Sparse(b.entries_by_table, <<>>)
           /\ current_data_offset' = b.current_data_offset
    /\ ret' = [op |-> "cdb_writer_put", res |-> "CDB_ERROR_IO"]
    /\ failures' = failures + 1
    /\ UNCHANGED << is_finalized, alive, inner, frozen, puts, finalize_calls, pc, fin >>
    /\ UNCHANGED notSink

\* cdb_writer_finalize, no call of the sink failing: without a writer the
\* handle refuses; otherwise the writer is taken out of the handle, finalized
\* and dropped.
cdb_writer_finalize ==
    /\ pc = "idle"
    /\ IF ~alive
       THEN /\ ret' = [op |-> "cdb_writer_finalize",
                       res |-> "CDB_ERROR_OPERATION_FAILED"]
            /\ UNCHANGED << writer, is_finalized, alive, finalize_calls >>
       ELSE /\ IF is_finalized
               THEN UNCHANGED << writer, is_finalized >>
               ELSE /\ writer' = FooterAndHeader(writer, Dense(entries_by_table, <<>>),
                                                   current_data_offset)
                    /\ is_finalized' = TRUE
            /\ alive' = FALSE
            /\ finalize_calls' = IF finalize_calls = 0 THEN 1 ELSE 2
            /\ ret' = [op |-> "cdb_writer_finalize", res |-> "CDB_SUCCESS"]
    /\ UNCHANGED << entries_by_table, current_data_offset, inner, frozen, puts, pc, fin >>
    /\ UNCHANGED notBuilder

\* Faulty cdb_writer_finalize: the writer taken out of the handle is dropped
\* when finalize fails too.
cdb_writer_finalize_fails_dropped(w, n) ==
    /\ pc = "idle"
    /\ alive
    /\ ~is_finalized
    /\ failures < MaxFailures
    /\ w <= Cardinality(DOMAIN entries_by_table) + 1
    /\ LET writes == FooterWrites(writer, Dense(entries_by_table, <<>>),
                                  current_data_offset)
       IN  /\ n < Len(writes[w].bytes)
           /\ writer' = WriteAt(WritesDone(writer, writes, w - 1), writes[w].pos,
                                SubSeq(writes[w].bytes, 1, n))
    /\ alive' = FALSE
    /\ ret' = [op |-> "cdb_writer_finalize", res |-> "CDB_ERROR_IO"]
    /\ finalize_calls' = IF finalize_calls = 0 THEN 1 ELSE 2
    /\ failures' = failures + 1
    /\ UNCHANGED << entries_by_table, is_finalized, current_data_offset,
                    inner, frozen, puts, pc, fin >>
    /\ UNCHANGED notSink

\* cdb_writer_finalize on a handle with a writer, a seek or a write of
\* write_footer_and_header failing, in its write number w after n bytes of it:
\* the writer is put back into the handle.
cdb_writer_finalize_fails(w, n) ==
    /\ pc = "idle"
    /\ alive
    /\ ~is_finalized
    /\ failures < MaxFailures
    /\ w <= Cardinality(DOMAIN entries_by_table) + 1
    /\ LET writes == FooterWrites(writer, Dense(entries_by_table, <<>>),
                                  current_data_offset)
       IN  /\ n < Len(writes[w].bytes)
           /\ writer' = WriteAt(WritesDone(writer, writes, w - 1), writes[w].pos,
                                SubSeq(writes[w].bytes, 1, n))
    /\ alive' = TRUE
    /\ ret' = [op |-> "cdb_writer_finalize", res |-> "CDB_ERROR_IO"]
    /\ finalize_calls' = IF finalize_calls = 0 THEN 1 ELSE 2
    /\ failures' = failures + 1
    /\ UNCHANGED << entries_by_table, is_finalized, current_data_offset,
                    inner, frozen, puts, pc, fin >>
    /\ UNCHANGED notSink

NextC ==
    \/ \E p \in FailPuts : cdb_writer_put(p[1], p[2])
    \/ \E p \in FailPuts, n \in FailAfter : cdb_writer_put_fails(p[1], p[2], n)
    \/ cdb_writer_finalize
    \/ \E w \in 1 .. (MaxPuts + 1), n \in FailAfter : cdb_writer_finalize_fails(w, n)

SpecC == Init /\ [][NextC]_vars

\* A call on the handle has returned.
HandleCall == ret'.op \in { "cdb_writer_put", "cdb_writer_finalize" }

\* C37 (the writer handle of the C binding): the handle holds a writer until
\* cdb_writer_finalize has returned CDB_SUCCESS, and none after; after it,
\* every cdb_writer_put and cdb_writer_finalize returns
\* CDB_ERROR_OPERATION_FAILED and leaves the file, the entry lists and the
\* cursor as they are; before it, a cdb_writer_finalize that returns
\* CDB_ERROR_IO leaves the writer in the handle, unfinalized, and no call on
\* the handle is refused with CDB_ERROR_OPERATION_FAILED.
Thm_C37 ==
    /\ [](alive <=> ~is_finalized)
    /\ [][is_finalized =>
              /\ HandleCall => ret'.res = "CDB_ERROR_OPERATION_FAILED"
              /\ UNCHANGED << writer, entries_by_table, current_data_offset,
                              is_finalized, alive, puts >>]_vars
    /\ [][(~is_finalized /\ HandleCall) =>
              /\ ret'.res # "CDB_ERROR_OPERATION_FAILED"
              /\ ret'.res = "CDB_SUCCESS" /\ ret'.op = "cdb_writer_finalize"
                     <=> is_finalized'
              /\ ret'.res = "CDB_ERROR_IO" => alive']_vars

\* cdb_writer_finalize has failed once on the handle, a cdb_writer_put after
\* it has returned CDB_SUCCESS and the cdb_writer_finalize after that too;
\* the cdb_writer_put after it is refused, and the file is that of a build of
\* the two records.
Wit_C37 ==
    /\ failures = 1
    /\ finalize_calls = 2
    /\ is_finalized /\ ~alive
    /\ Len(puts) = 2
    /\ writer = Build(puts)
    /\ ret = [op |-> "cdb_writer_put", res |-> "CDB_ERROR_OPERATION_FAILED"]

====
